---- MODULE Spec2Model ----
(***************************************************************************)
(* NYC collision pipeline: the cleaning script (data_cleaning.py), the     *)
(* feature-engineering script (feature_engineering.py), the persistence    *)
(* script (database_integration.py) and the filtered query and input       *)
(* alignment of the dashboard (app.py), as state machines over small       *)
(* dataframes.                                                             *)
(*                                                                         *)
(* A dataframe is a sequence of rows; a row is a record whose fields are   *)
(* the columns.  A script is a straight-line program: pc is the numbered   *)
(* section it is about to run, every section is one action.                *)
(*                                                                         *)
(* Coordinates are integers in units of 1/10000 degree (40.700 degrees is  *)
(* 407000), which keeps the comparisons and the 3-decimal rounding exact.  *)
(***************************************************************************)
EXTENDS Integers, Sequences, FiniteSets, TLC

VARIABLES
    clean_csv,      \* data/clean_collision_data.csv: [exists, rows]
    pc,             \* feature_engineering.py: the section about to run
    exc,            \* feature_engineering.py: the exception that ended it, or "none"
    df,             \* feature_engineering.py: df
    df_balanced,    \* feature_engineering.py: df_balanced
    processed_csv,  \* data/processed_collision_data.csv: [exists, rows]
    db_pc,          \* database_integration.py: the step about to run
    db_df,          \* database_integration.py: df
    db_exc,         \* database_integration.py: the exception that ended it, or "none"
    db_runs,        \* database_integration.py: how often it has been started
    db,             \* data/collision_data.db: the committed tables
    conn,           \* database_integration.py: the tables as conn sees them
    app_pc,         \* app.py: the step of the prediction form about to run
    input_data,     \* app.py: input_data of the prediction form
    aligned_input,  \* app.py: aligned_input of the prediction form
    app_out,        \* app.py: the messages printed
    app_exc,        \* app.py: the exception that ended the run, or "none"
    filters,        \* app.py: the selections of the sidebar
    filtered_df,    \* app.py: filtered_df
    cache_data,     \* app.py: the results kept by st.cache_data, for all sessions
    run,            \* app.py: per user, the variables of the script run
    session_state,  \* app.py: per user, st.session_state
    artifacts,      \* models/ and encoders/: the files of the trained model
    eda_pc,         \* exploratory_data_analysis.py: the step about to run
    eda_df,         \* exploratory_data_analysis.py: df
    eda_exc,        \* exploratory_data_analysis.py: the exception that ended it
    scored,         \* a severity score and what each classifier made of it
    raw_csv,        \* data/raw_dataset.csv: [exists, rows]
    cl_pc,          \* data_cleaning.py: the step about to run
    cl_df,          \* data_cleaning.py: df
    cl_exc,         \* data_cleaning.py: the exception that ended it, or "none"
    fetched         \* the files a download has been attempted for

feVars == <<clean_csv, pc, exc, df, df_balanced, processed_csv>>

dbVars == <<db_pc, db_df, db_exc, db_runs, db, conn>>

alignVars == <<app_pc, input_data, aligned_input, app_out, app_exc>>

queryVars == <<filters, filtered_df>>

sessionVars == <<cache_data, run, session_state, artifacts>>

appVars == <<alignVars, queryVars, sessionVars>>

cleanVars == <<raw_csv, cl_pc, cl_df, cl_exc>>

edaVars == <<eda_pc, eda_df, eda_exc, scored>>

vars == <<feVars, dbVars, appVars, cleanVars, edaVars, fetched>>

(***************************************************************************)
(* Bounds of the model.                                                    *)
(***************************************************************************)
\* largest value of one injury/fatality count
MaxCount == 1
\* largest number of rows of a dataset of the clustering family
MaxRecords == 6
\* largest number of rows of a dataset of the balancing family
MaxBalanceRecords == 4
\* chunk_size of cluster_in_chunks (10000 in the script), scaled down
ChunkSize == 4
\* min_samples of cluster_in_chunks (10 in the script), scaled down
MinSamples == 2
\* largest number of runs of database_integration.py on one database file
MaxRuns == 2

(***************************************************************************)
(* Generic helpers.                                                        *)
(***************************************************************************)
Abs(x) == IF x < 0 THEN -x ELSE x

Min2(a, b) == IF a <= b THEN a ELSE b

RECURSIVE GCD(_, _)
GCD(a, b) == IF b = 0 THEN a ELSE GCD(b, a % b)

\* a missing value (pandas NaN / SQL NULL) in a column
NaN == "NaN"

\* dict.get semantics of Series.map(dict): the entry, or NaN when k is no key
MapDict(d, k) == IF k \in DOMAIN d THEN d[k] ELSE NaN

\* df[col] = ... : the row with the new columns added (or overwritten)
WithCols(row, new) == new @@ row

(***************************************************************************)
(* 1. Contributing factors (feature_engineering.py 45-98).                 *)
(***************************************************************************)
factor_mapping ==
    ("Driver Inattention/Distraction" :> "Human Error") @@
    ("Driver Inexperience" :> "Human Error") @@
    ("Following Too Closely" :> "Human Error") @@
    ("Unsafe Speed" :> "Human Error") @@
    ("Failure to Yield Right-of-Way" :> "Human Error") @@
    ("Aggressive Driving/Road Rage" :> "Human Error") @@
    ("Backing Unsafely" :> "Human Error") @@
    ("Fell Asleep" :> "Human Error") @@
    ("Fatigued/Drowsy" :> "Human Error") @@
    ("Lost Consciousness" :> "Human Error") @@
    ("Alcohol Involvement" :> "Human Error") @@
    ("Drugs (Illegal)" :> "Human Error") @@
    ("Prescription Medication" :> "Human Error") @@
    ("Pavement Slippery" :> "Environmental Factors") @@
    ("Obstruction/Debris" :> "Environmental Factors") @@
    ("View Obstructed/Limited" :> "Environmental Factors") @@
    ("Glare" :> "Environmental Factors") @@
    ("Outside Car Distraction" :> "Environmental Factors") @@
    ("Animals Action" :> "Environmental Factors") @@
    ("Pavement Defective" :> "Environmental Factors") @@
    ("Brakes Defective" :> "Mechanical/Vehicle Issues") @@
    ("Steering Failure" :> "Mechanical/Vehicle Issues") @@
    ("Tire Failure/Inadequate" :> "Mechanical/Vehicle Issues") @@
    ("Accelerator Defective" :> "Mechanical/Vehicle Issues") @@
    ("Headlights Defective" :> "Mechanical/Vehicle Issues") @@
    ("Oversized Vehicle" :> "Mechanical/Vehicle Issues") @@
    ("Other Lighting Defects" :> "Mechanical/Vehicle Issues") @@
    ("Windshield Inadequate" :> "Mechanical/Vehicle Issues") @@
    ("Tow Hitch Defective" :> "Mechanical/Vehicle Issues") @@
    ("Vehicle Vandalism" :> "Mechanical/Vehicle Issues") @@
    ("Physical Disability" :> "Mechanical/Vehicle Issues") @@
    ("Traffic Control Disregarded" :> "Traffic/Regulatory Issues") @@
    ("Traffic Control Device Improper/Non-Working" :> "Traffic/Regulatory Issues") @@
    ("Lane Marking Improper/Inadequate" :> "Traffic/Regulatory Issues") @@
    ("Pedestrian/Bicyclist/Other Pedestrian Error/Confusion" :> "Pedestrian/Cyclist Issues") @@
    ("Unspecified" :> "Unknown/Other") @@
    ("Unknown" :> "Unknown/Other") @@
    ("Other Vehicular" :> "Unknown/Other") @@
    ("Other Electronic Device" :> "Unknown/Other") @@
    ("Cell Phone (hands-free)" :> "Distracted/Occupied") @@
    ("Cell Phone (hand-held)" :> "Distracted/Occupied") @@
    ("Using On Board Navigation Device" :> "Distracted/Occupied") @@
    ("Eating or Drinking" :> "Distracted/Occupied") @@
    ("Listening/Using Headphones" :> "Distracted/Occupied") @@
    ("Texting" :> "Distracted/Occupied")

\* exploratory_data_analysis.py 91-100: the fallback for the contributing
\* factor, which the feature engineering does not apply
placeholders == {"Unknown", "Unspecified"}

\* lines 96-97
secondary_factors ==
    <<"contributing_factor_vehicle_2", "contributing_factor_vehicle_3",
      "contributing_factor_vehicle_4", "contributing_factor_vehicle_5">>

\* the for loop of lines 96-100 over the columns that are left
RECURSIVE fallback(_, _)
fallback(row, cols) ==
    IF cols = <<>> THEN row.contributing_factor_vehicle_1
    ELSE IF row[Head(cols)] \notin placeholders THEN row[Head(cols)]
    ELSE fallback(row, Tail(cols))

\* the loop over the columns from the last to the first
RECURSIVE fallback_from_last(_, _)
fallback_from_last(row, cols) ==
    IF cols = <<>> THEN row.contributing_factor_vehicle_1
    ELSE IF row[cols[Len(cols)]] \notin placeholders THEN row[cols[Len(cols)]]
    ELSE fallback_from_last(row, SubSeq(cols, 1, Len(cols) - 1))

\* the secondary columns scanned from factor 5 down to factor 2
determine_primary_contributing_factor_last(row) ==
    IF row.contributing_factor_vehicle_1 \notin placeholders
    THEN row.contributing_factor_vehicle_1
    ELSE fallback_from_last(row, secondary_factors)

\* lines 92-100
determine_primary_contributing_factor(row) ==
    IF row.contributing_factor_vehicle_1 \notin placeholders
    THEN row.contributing_factor_vehicle_1
    ELSE fallback(row, secondary_factors)

\* the category of the factor the fallback finds
contributing_factor_category_fallback(row) ==
    MapDict(factor_mapping, determine_primary_contributing_factor(row))

\* df['contributing_factor_vehicle_1'].map(factor_mapping), one row
contributing_factor_category(row) ==
    MapDict(factor_mapping, row.contributing_factor_vehicle_1)

(***************************************************************************)
(* 2. Severity score and category (feature_engineering.py 100-121).        *)
(***************************************************************************)
killed_cols ==
    <<"number_of_persons_killed", "number_of_pedestrians_killed",
      "number_of_cyclist_killed", "number_of_motorist_killed">>

injured_cols ==
    <<"number_of_persons_injured", "number_of_pedestrians_injured",
      "number_of_cyclist_injured", "number_of_motorist_injured">>

\* df[cols].sum(axis=1), one row
RECURSIVE SumCols(_, _)
SumCols(row, cols) ==
    IF cols = <<>> THEN 0 ELSE row[Head(cols)] + SumCols(row, Tail(cols))

total_deaths(row) == SumCols(row, killed_cols)

total_injuries(row) == SumCols(row, injured_cols)

\* the score without the weight of 5 on the deaths
severity_score_unweighted(row) == total_deaths(row) + total_injuries(row)

severity_score(row) == total_deaths(row) * 5 + total_injuries(row)

\* the thresholds taken as strict upper bounds
aggregate_severity_strict(score) ==
    IF score < 4 THEN "Low"
    ELSE IF score < 10 THEN "Medium"
    ELSE "High"

aggregate_severity(score) ==
    IF score <= 4 THEN "Low"
    ELSE IF score <= 10 THEN "Medium"
    ELSE "High"

\* A score with a fractional part is written in hundredths: 405 is 4.05.
Hundredths == 100

\* aggregate_severity on a score in hundredths: Python compares the int
\* thresholds 4 and 10 with a float by value
aggregate_severity_of_float(score) ==
    IF score <= 4 * Hundredths THEN "Low"
    ELSE IF score <= 10 * Hundredths THEN "Medium"
    ELSE "High"

(***************************************************************************)
(* Severity levels of the threshold analysis                               *)
(* (features_anaylsis/severity_threshold_analysis.py 50-67).  The scores   *)
(* and the thresholds 4.0 and 10.0 are floats, written in hundredths.      *)
(***************************************************************************)
low_threshold == 4 * Hundredths

medium_threshold == 10 * Hundredths

\* the levels as the docstring words them: Medium from 4.1 to 10.0
assign_severity_level_from_4_1(score) ==
    IF score <= low_threshold THEN "Low"
    ELSE IF low_threshold + 10 <= score /\ score <= medium_threshold THEN "Medium"
    ELSE "High"

assign_severity_level(score) ==
    IF score <= low_threshold THEN "Low"
    ELSE IF low_threshold < score /\ score <= medium_threshold THEN "Medium"
    ELSE "High"

(***************************************************************************)
(* 5. Location grid (feature_engineering.py 157-161).                      *)
(***************************************************************************)
\* Series.round(3): x in 1/10000 degree to the nearest 1/1000 degree, a tie
\* to the even neighbour; the result is in 1/1000 degree
round3(x) ==
    LET q == x \div 10
        r == x % 10
    IN  IF r < 5 THEN q
        ELSE IF r > 5 THEN q + 1
        ELSE IF q % 2 = 0 THEN q ELSE q + 1

\* str(lat_rounded) + ", " + str(lon_rounded): one key per pair of rounded values
location_grid(row) == <<round3(row.latitude), round3(row.longitude)>>

(***************************************************************************)
(* 6. Crash rate (feature_engineering.py 163-164).                         *)
(***************************************************************************)
\* a mean as the fraction sum/count in lowest terms
Fraction(sum, count) ==
    LET g == GCD(Abs(sum), count) IN [num |-> sum \div g, den |-> count \div g]

RECURSIVE SumOver(_, _, _)
SumOver(d, col, idx) ==
    IF idx = {} THEN 0
    ELSE LET i == CHOOSE j \in idx : TRUE
         IN  d[i][col] + SumOver(d, col, idx \ {i})

\* the rows of d in the same group as row i
GroupOf(d, key, i) == {j \in 1..Len(d) : d[j][key] = d[i][key]}

\* transform('sum') in place of transform('mean')
GroupSum(d, key, col, i) == Fraction(SumOver(d, col, GroupOf(d, key, i)), 1)

\* d.groupby(key)[col].transform('mean'), the value broadcast to row i
GroupMean(d, key, col, i) ==
    LET g == GroupOf(d, key, i)
    IN  Fraction(SumOver(d, col, g), Cardinality(g))

(***************************************************************************)
(* 7. Collision clusters (feature_engineering.py 166-178).                 *)
(***************************************************************************)
\* eps = 0.01 radian of great-circle distance is 0.5729578 degree: the largest
\* whole number of 1/10000 degree within eps
EpsDeg4 == 5729

\* haversine(radians(p), radians(q)) <= eps.  On one meridian the haversine
\* distance is exactly the difference of the latitudes; across meridians it is
\* estimated on the plane with cos(latitude) = 3/4 (New York).
haversine_within_eps(p, q) ==
    LET dlat == Abs(p.latitude - q.latitude)
        dlon == Abs(p.longitude - q.longitude)
    IN  IF dlon = 0 THEN dlat <= EpsDeg4
        ELSE /\ dlat <= EpsDeg4
             /\ dlon <= 2 * EpsDeg4
             /\ 16 * dlat * dlat + 9 * dlon * dlon <= 16 * EpsDeg4 * EpsDeg4

\* DBSCAN: the eps-neighbourhood of sample i of X (i itself included)
neighborhood(X, i) == {j \in 1..Len(X) : haversine_within_eps(X[i], X[j])}

\* a sample counted as core with one neighbour too few
core_samples_lax(X, min_samples) ==
    {i \in 1..Len(X) : Cardinality(neighborhood(X, i)) >= min_samples - 1}

\* DBSCAN: the core samples, those with at least min_samples neighbours
core_samples(X, min_samples) ==
    {i \in 1..Len(X) : Cardinality(neighborhood(X, i)) >= min_samples}

\* DBSCAN: the still unlabelled samples reached from the set S through core samples
RECURSIVE expand_cluster(_, _, _, _)
expand_cluster(X, core, labels, S) ==
    LET new == {v \in 1..Len(X) :
                    /\ v \notin S
                    /\ labels[v] = -1
                    /\ \E u \in S : u \in core /\ v \in neighborhood(X, u)}
    IN  IF new = {} THEN S ELSE expand_cluster(X, core, labels, S \cup new)

\* DBSCAN: the scan over the samples in index order; every unlabelled core
\* sample seeds the next cluster number
RECURSIVE dbscan_inner(_, _, _, _, _)
dbscan_inner(X, core, i, label_num, labels) ==
    IF i > Len(X) THEN labels
    ELSE IF labels[i] # -1 \/ i \notin core
         THEN dbscan_inner(X, core, i + 1, label_num, labels)
         ELSE LET members == expand_cluster(X, core, labels, {i})
              IN  dbscan_inner(X, core, i + 1, label_num + 1,
                      [v \in 1..Len(X) |->
                          IF v \in members THEN label_num ELSE labels[v]])

\* DBSCAN(eps, min_samples, metric='haversine').fit(radians(X)).labels_
DBSCAN(X, min_samples) ==
    dbscan_inner(X, core_samples(X, min_samples), 1, 0, [v \in 1..Len(X) |-> -1])

\* dataframe.iloc[start:end], start and end counted from 0, end clipped
iloc(dataframe, start, end) == SubSeq(dataframe, start + 1, Min2(end, Len(dataframe)))

\* the for loop of cluster_in_chunks from the chunk that begins at start
RECURSIVE cluster_chunks_from(_, _, _)
cluster_chunks_from(dataframe, chunk_size, start) ==
    IF start >= Len(dataframe) THEN <<>>
    ELSE LET end == start + chunk_size
             chunk == iloc(dataframe, start, end)
         IN  DBSCAN(chunk, MinSamples) \o cluster_chunks_from(dataframe, chunk_size, end)

\* the whole frame clustered in one pass, no chunking
cluster_whole(dataframe, chunk_size) == DBSCAN(dataframe, MinSamples)

\* the number of clusters in a label sequence
n_clusters(labels) == Cardinality({labels[i] : i \in 1..Len(labels)} \ {-1})

\* chunked, but the cluster numbers go on from chunk to chunk
RECURSIVE cluster_chunks_numbered(_, _, _, _)
cluster_chunks_numbered(dataframe, chunk_size, start, offset) ==
    IF start >= Len(dataframe) THEN <<>>
    ELSE LET end == start + chunk_size
             labels == DBSCAN(iloc(dataframe, start, end), MinSamples)
         IN  [i \in 1..Len(labels) |->
                 IF labels[i] = -1 THEN -1 ELSE labels[i] + offset]
             \o cluster_chunks_numbered(dataframe, chunk_size, end,
                                        offset + n_clusters(labels))

cluster_in_chunks_numbered(dataframe, chunk_size) ==
    cluster_chunks_numbered(dataframe, chunk_size, 0, 0)

cluster_in_chunks(dataframe, chunk_size) == cluster_chunks_from(dataframe, chunk_size, 0)

(***************************************************************************)
(* 8. Class imbalance (feature_engineering.py 180-186).                    *)
(***************************************************************************)
IsLow(row) == row.severity_category = "Low"

IsNotLow(row) == row.severity_category # "Low"

majority_class(d) == SelectSeq(d, IsLow)

IsHigh(row) == row.severity_category = "High"

\* only the High rows taken as the minority
minority_classes_high_only(d) == SelectSeq(d, IsHigh)

minority_classes(d) == SelectSeq(d, IsNotLow)

\* n_samples rows of arr drawn with replacement
resample_with_replacement(arr, n_samples) ==
    {[k \in 1..n_samples |-> arr[f[k]]] : f \in [1..n_samples -> 1..Len(arr)]}

\* resample(arr, replace=False, n_samples, random_state=42): n_samples distinct
\* rows of arr in a shuffled order.  The shuffle of the seeded generator is
\* one fixed permutation that the script's text does not determine: every one
\* is allowed.  The set is empty when n_samples > len(arr), where resample
\* raises ValueError.
resample(arr, n_samples) ==
    {[k \in 1..n_samples |-> arr[f[k]]] :
        f \in {g \in [1..n_samples -> 1..Len(arr)] :
                  \A a, b \in 1..n_samples : a # b => g[a] # g[b]}}

(***************************************************************************)
(* database_integration.py 22-43: borough assignment.                      *)
(***************************************************************************)
borough_ranges ==
    << [name |-> "Manhattan", lat_min |-> 407000, lat_max |-> 408820,
        lon_min |-> -740190, lon_max |-> -739070],
       [name |-> "Brooklyn", lat_min |-> 405700, lat_max |-> 407390,
        lon_min |-> -740410, lon_max |-> -738550],
       [name |-> "Queens", lat_min |-> 405410, lat_max |-> 408000,
        lon_min |-> -739620, lon_max |-> -737000],
       [name |-> "Bronx", lat_min |-> 407850, lat_max |-> 409100,
        lon_min |-> -739330, lon_max |-> -737650],
       [name |-> "Staten Island", lat_min |-> 404770, lat_max |-> 406480,
        lon_min |-> -742550, lon_max |-> -740510] >>

\* the bounds of a box taken as exclusive
in_bounds_exclusive(bounds, lat, lon) ==
    /\ bounds.lat_min < lat /\ lat < bounds.lat_max
    /\ bounds.lon_min < lon /\ lon < bounds.lon_max

\* the condition of the if in get_borough
in_bounds(bounds, lat, lon) ==
    /\ bounds.lat_min <= lat /\ lat <= bounds.lat_max
    /\ bounds.lon_min <= lon /\ lon <= bounds.lon_max

\* the for loop of get_borough over the items of a table
RECURSIVE first_match(_, _, _)
first_match(table, lat, lon) ==
    IF table = <<>> THEN "Unknown"
    ELSE IF in_bounds(Head(table), lat, lon) THEN Head(table).name
    ELSE first_match(Tail(table), lat, lon)

\* the table scanned from its end: the last matching box wins
RECURSIVE last_match(_, _, _)
last_match(table, lat, lon) ==
    IF table = <<>> THEN "Unknown"
    ELSE IF in_bounds(table[Len(table)], lat, lon) THEN table[Len(table)].name
    ELSE last_match(SubSeq(table, 1, Len(table) - 1), lat, lon)

get_borough_last_match(lat, lon) == last_match(borough_ranges, lat, lon)

get_borough(lat, lon) == first_match(borough_ranges, lat, lon)

(***************************************************************************)
(* Time features (section 3).  A timestamp is kept as the components the   *)
(* script reads from it.                                                   *)
(***************************************************************************)
\* a missing number: no number of the data of the model is -1
NaNNum == -1

\* a timestamp of the crash_datetime column
Timestamp(day, h, m) == [day_name |-> day, hour |-> h, month |-> m]

\* a timestamp that could not be parsed
NaT == [day_name |-> NaN, hour |-> NaNNum, month |-> NaNNum]

day_name(ts) == ts.day_name

hour(ts) == ts.hour

month(ts) == ts.month

time_bins == <<0, 6, 12, 18, 24>>

time_labels == <<"Night", "Morning", "Afternoon", "Evening">>

\* pd.cut(x, bins, labels, right=True): bin k is (bins[k], bins[k+1]]
cut_right_closed(x, bins, labels) ==
    IF x = NaNNum THEN NaN
    ELSE LET hits == {k \in 1..Len(labels) : bins[k] < x /\ x <= bins[k + 1]}
         IN  IF hits = {} THEN NaN ELSE labels[CHOOSE k \in hits : TRUE]

\* pd.cut(x, bins, labels, right=False): bin k is [bins[k], bins[k+1]); a
\* value in no bin, or a missing one, has no label
cut(x, bins, labels) ==
    IF x = NaNNum THEN NaN
    ELSE LET hits == {k \in 1..Len(labels) : bins[k] <= x /\ x < bins[k + 1]}
         IN  IF hits = {} THEN NaN ELSE labels[CHOOSE k \in hits : TRUE]

time_of_day(hour_of_day) == cut(hour_of_day, time_bins, time_labels)

(***************************************************************************)
(* Vehicle categories (section 4).                                         *)
(***************************************************************************)
vehicle_mapping ==
    ("sedan" :> "Passenger Vehicle")
    @@ ("station wagon/sport utility vehicle" :> "Passenger Vehicle")
    @@ ("passenger vehicle" :> "Passenger Vehicle")
    @@ ("sport utility / station wagon" :> "Passenger Vehicle")
    @@ ("taxi" :> "Taxi")
    @@ ("pick-up truck" :> "Truck")
    @@ ("4 dr sedan" :> "Passenger Vehicle")
    @@ ("box truck" :> "Truck")
    @@ ("van" :> "Van")
    @@ ("bus" :> "Bus")
    @@ ("bike" :> "Bike")

\* str.lower() on the strings of the model: vehicle type codes as the
\* collision data spells them, and factor codes in other spellings
str_lower ==
    [k \in DOMAIN vehicle_mapping |-> k]
    @@ ("Sedan" :> "sedan")
    @@ ("SEDAN" :> "sedan")
    @@ ("Station Wagon/Sport Utility Vehicle" :> "station wagon/sport utility vehicle")
    @@ ("PASSENGER VEHICLE" :> "passenger vehicle")
    @@ ("SPORT UTILITY / STATION WAGON" :> "sport utility / station wagon")
    @@ ("Taxi" :> "taxi")
    @@ ("TAXI" :> "taxi")
    @@ ("Pick-up Truck" :> "pick-up truck")
    @@ ("PICK-UP TRUCK" :> "pick-up truck")
    @@ ("4 Dr Sedan" :> "4 dr sedan")
    @@ ("Box Truck" :> "box truck")
    @@ ("Van" :> "van")
    @@ ("VAN" :> "van")
    @@ ("Bus" :> "bus")
    @@ ("BUS" :> "bus")
    @@ ("Bike" :> "bike")
    @@ ("BICYCLE" :> "bicycle")
    @@ ("E-Bike" :> "e-bike")
    @@ ("Motorcycle" :> "motorcycle")
    @@ ("Unknown" :> "unknown")
    @@ ("UNKNOWN" :> "unknown")
    @@ ("unknown" :> "unknown")
    @@ ("Unsafe Speed" :> "unsafe speed")
    @@ ("UNSAFE SPEED" :> "unsafe speed")
    @@ ("unsafe speed" :> "unsafe speed")
    @@ ("Drugs (Illegal)" :> "drugs (illegal)")
    @@ ("Drugs (illegal)" :> "drugs (illegal)")
    @@ ("Cell Phone (hand-held)" :> "cell phone (hand-held)")
    @@ ("Cell Phone (hand-Held)" :> "cell phone (hand-held)")
    @@ ("Unspecified" :> "unspecified")
    @@ ("UNSPECIFIED" :> "unspecified")
    @@ ("Turning Improperly" :> "turning improperly")
    @@ ("TURNING IMPROPERLY" :> "turning improperly")

\* Series.str.lower(): a missing value stays missing
lower(s) == IF s = NaN THEN NaN ELSE str_lower[s]

fillna(v, value) == IF v = NaN THEN value ELSE v

\* the lookup that leaves a code without a key missing
vehicle_category_unfilled(code) == MapDict(vehicle_mapping, code)

\* lines 152-155, for the lower-cased code of one row
vehicle_category(code) == fillna(MapDict(vehicle_mapping, code), "Unknown")

\* download_files.py 24-33: the path stays as it is when the file exists;
\* otherwise a download is attempted, which leaves the file there, with the
\* rows kept at the URL, or leaves nothing
check_and_download_file(file, name, remote) ==
    IF file.exists THEN {[file |-> file, fetched |-> {}]}
    ELSE {[file |-> [exists |-> TRUE, rows |-> d], fetched |-> {name}] : d \in remote}
         \cup {[file |-> file, fetched |-> {name}]}

(***************************************************************************)
(* data_cleaning.py, step by step.  A row of the raw dataset is a function *)
(* from the column names of the file to values; a missing number is        *)
(* NaNNum, a missing string NaN.                                           *)
(***************************************************************************)
\* line 63: col.strip().lower().replace(" ", "_") on the columns of the file
standard_name ==
    ("CRASH DATE" :> "crash_date")
    @@ ("CRASH TIME" :> "crash_time")
    @@ ("BOROUGH" :> "borough")
    @@ ("LATITUDE" :> "latitude")
    @@ ("LONGITUDE" :> "longitude")
    @@ ("NUMBER OF PERSONS INJURED" :> "number_of_persons_injured")
    @@ ("NUMBER OF PERSONS KILLED" :> "number_of_persons_killed")
    @@ ("NUMBER OF PEDESTRIANS INJURED" :> "number_of_pedestrians_injured")
    @@ ("NUMBER OF PEDESTRIANS KILLED" :> "number_of_pedestrians_killed")
    @@ ("NUMBER OF CYCLIST INJURED" :> "number_of_cyclist_injured")
    @@ ("NUMBER OF CYCLIST KILLED" :> "number_of_cyclist_killed")
    @@ ("NUMBER OF MOTORIST INJURED" :> "number_of_motorist_injured")
    @@ ("NUMBER OF MOTORIST KILLED" :> "number_of_motorist_killed")
    @@ ("CONTRIBUTING FACTOR VEHICLE 1" :> "contributing_factor_vehicle_1")
    @@ ("COLLISION_ID" :> "collision_id")
    @@ ("VEHICLE TYPE CODE 1" :> "vehicle_type_code_1")

\* the rows of d at the indices idx, in the order of d
RECURSIVE take(_, _)
take(d, idx) ==
    IF Len(d) = 0 THEN <<>>
    ELSE take(SubSeq(d, 1, Len(d) - 1), idx)
            \o (IF Len(d) \in idx THEN <<d[Len(d)]>> ELSE <<>>)

\* every row kept, the repeated ones too
keep_duplicates(d) == d

\* df.drop_duplicates(): the first of the rows that are equal in every column
drop_duplicates(d) ==
    take(d, {i \in 1..Len(d) : \A j \in 1..(i - 1) : d[j] # d[i]})

\* df.columns = [...]: every column under its new name
rename(row, names) ==
    [c \in {names[k] : k \in DOMAIN row} |->
        row[CHOOSE k \in DOMAIN row : names[k] = c]]

\* df.dropna(subset, how='any') on numeric columns
dropna_any(d, subset) ==
    take(d, {i \in 1..Len(d) : \A c \in subset : d[i][c] # NaNNum})

\* df.dropna(subset, how='all') on numeric columns
dropna_all(d, subset) ==
    take(d, {i \in 1..Len(d) : \E c \in subset : d[i][c] # NaNNum})

columns_to_drop ==
    {"borough", "zip_code", "on_street_name", "cross_street_name",
     "off_street_name", "collision_id"}

\* df.drop(columns, errors='ignore')
drop(row, cols) == [c \in (DOMAIN row) \ cols |-> row[c]]

\* lines 85-90, the columns of the model among them
unknown_cols == {"contributing_factor_vehicle_1", "vehicle_type_code_1"}

injury_cols ==
    {"number_of_persons_injured", "number_of_persons_killed",
     "number_of_pedestrians_injured", "number_of_pedestrians_killed",
     "number_of_cyclist_injured", "number_of_cyclist_killed",
     "number_of_motorist_injured", "number_of_motorist_killed"}

\* line 103 with how='any'
drop_incomplete_injuries(d) == dropna_any(d, injury_cols)

\* line 103
drop_missing_injuries(d) == dropna_all(d, injury_cols)

\* lines 113-116: the date and the time parsed into one timestamp; NaT when
\* either of them cannot be parsed
crash_datetime(row) ==
    IF row.crash_date.month = NaNNum \/ row.crash_time = NaNNum THEN NaT
    ELSE Timestamp(row.crash_date.day_name, row.crash_time, row.crash_date.month)

\* the raw dataset kept at the URL of line 34: a row without casualty and a
\* row with one pedestrian killed, at City Hall
RemoteRaw ==
    {[i \in 1..2 |->
        ("CRASH DATE" :> [day_name |-> "Monday", month |-> 1])
        @@ ("CRASH TIME" :> 8)
        @@ ("BOROUGH" :> NaN)
        @@ ("LATITUDE" :> 407128)
        @@ ("LONGITUDE" :> -740060)
        @@ ("NUMBER OF PERSONS INJURED" :> 0)
        @@ ("NUMBER OF PERSONS KILLED" :> 0)
        @@ ("NUMBER OF PEDESTRIANS INJURED" :> 0)
        @@ ("NUMBER OF PEDESTRIANS KILLED" :> i - 1)
        @@ ("NUMBER OF CYCLIST INJURED" :> 0)
        @@ ("NUMBER OF CYCLIST KILLED" :> 0)
        @@ ("NUMBER OF MOTORIST INJURED" :> 0)
        @@ ("NUMBER OF MOTORIST KILLED" :> 0)
        @@ ("CONTRIBUTING FACTOR VEHICLE 1" :> "Unspecified")
        @@ ("COLLISION_ID" :> i)
        @@ ("VEHICLE TYPE CODE 1" :> "Sedan")]}

\* lines 33-41: the raw dataset is fetched if it is missing, and read
CleanLoad ==
    /\ cl_pc = "load" /\ cl_exc = "none"
    /\ \E checked \in check_and_download_file(raw_csv, "raw_dataset.csv", RemoteRaw) :
          /\ raw_csv' = checked.file
          /\ fetched' = fetched \cup checked.fetched
          /\ IF checked.file.exists
             THEN cl_df' = checked.file.rows /\ cl_pc' = "duplicates" /\ cl_exc' = cl_exc
             ELSE cl_exc' = "FileNotFoundError" /\ UNCHANGED <<cl_df, cl_pc>>
    /\ UNCHANGED <<feVars, dbVars, appVars,
                   edaVars>>

\* lines 50-58
CleanDuplicates ==
    /\ cl_pc = "duplicates"
    /\ cl_df' = drop_duplicates(cl_df)
    /\ cl_pc' = "names"
    /\ UNCHANGED <<feVars, dbVars, appVars, raw_csv, cl_exc, fetched,
                   edaVars>>

\* lines 60-65
CleanNames ==
    /\ cl_pc = "names"
    /\ cl_df' = [i \in 1..Len(cl_df) |-> rename(cl_df[i], standard_name)]
    /\ cl_pc' = "geo"
    /\ UNCHANGED <<feVars, dbVars, appVars, raw_csv, cl_exc, fetched,
                   edaVars>>

\* lines 67-76
CleanGeo ==
    /\ cl_pc = "geo"
    /\ cl_df' = dropna_any(cl_df, {"latitude", "longitude"})
    /\ cl_pc' = "columns"
    /\ UNCHANGED <<feVars, dbVars, appVars, raw_csv, cl_exc, fetched,
                   edaVars>>

\* lines 78-81
CleanColumns ==
    /\ cl_pc = "columns"
    /\ cl_df' = [i \in 1..Len(cl_df) |-> drop(cl_df[i], columns_to_drop)]
    /\ cl_pc' = "unknown"
    /\ UNCHANGED <<feVars, dbVars, appVars, raw_csv, cl_exc, fetched,
                   edaVars>>

\* lines 83-93
CleanUnknown ==
    /\ cl_pc = "unknown"
    /\ cl_df' = [i \in 1..Len(cl_df) |->
                    [c \in DOMAIN cl_df[i] |->
                        IF c \in unknown_cols THEN fillna(cl_df[i][c], "Unknown")
                        ELSE cl_df[i][c]]]
    /\ cl_pc' = "injuries"
    /\ UNCHANGED <<feVars, dbVars, appVars, raw_csv, cl_exc, fetched,
                   edaVars>>

\* lines 95-106
CleanInjuries ==
    /\ cl_pc = "injuries"
    /\ LET kept == drop_missing_injuries(cl_df)
       IN  cl_df' = [i \in 1..Len(kept) |->
                        [c \in DOMAIN kept[i] |->
                            IF c \in injury_cols /\ kept[i][c] = NaNNum THEN 0
                            ELSE kept[i][c]]]
    /\ cl_pc' = "types"
    /\ UNCHANGED <<feVars, dbVars, appVars, raw_csv, cl_exc, fetched,
                   edaVars>>

\* lines 108-129: the category dtype changes no value
CleanTypes ==
    /\ cl_pc = "types"
    /\ cl_df' = [i \in 1..Len(cl_df) |->
                    drop(WithCols(cl_df[i], [crash_datetime |-> crash_datetime(cl_df[i])]),
                         {"crash_date", "crash_time"})]
    /\ cl_pc' = "save"
    /\ UNCHANGED <<feVars, dbVars, appVars, raw_csv, cl_exc, fetched,
                   edaVars>>

\* lines 131-148
CleanSave ==
    /\ cl_pc = "save"
    /\ clean_csv' = [exists |-> TRUE, rows |-> cl_df]
    /\ cl_pc' = "done"
    /\ UNCHANGED <<pc, exc, df, df_balanced, processed_csv, dbVars, appVars,
                   raw_csv, cl_df, cl_exc, fetched,
                   edaVars>>

NextClean ==
    \/ CleanLoad
    \/ CleanDuplicates
    \/ CleanNames
    \/ CleanGeo
    \/ CleanColumns
    \/ CleanUnknown
    \/ CleanInjuries
    \/ CleanTypes
    \/ CleanSave

(***************************************************************************)
(* feature_engineering.py, section by section.                             *)
(***************************************************************************)
\* the dataframe with the columns new[i] set in every row i
AddCols(d, new) == [i \in 1..Len(d) |-> WithCols(d[i], new[i])]

\* the cleaned dataset kept at the URL of line 37: a row without casualty
\* and a row with one pedestrian killed, at City Hall
RemoteClean ==
    {[i \in 1..2 |->
        [latitude |-> 407128, longitude |-> -740060,
         contributing_factor_vehicle_1 |-> "Unspecified",
         vehicle_type_code_1 |-> "Sedan",
         crash_datetime |-> Timestamp("Monday", 8, 1),
         number_of_persons_injured |-> 0, number_of_persons_killed |-> 0,
         number_of_pedestrians_injured |-> 0, number_of_pedestrians_killed |-> i - 1,
         number_of_cyclist_injured |-> 0, number_of_cyclist_killed |-> 0,
         number_of_motorist_injured |-> 0, number_of_motorist_killed |-> 0]]}

\* lines 36-43: the cleaned dataset is fetched if it is missing, and read;
\* pd.read_csv raises when the file is still not there
LoadClean ==
    /\ pc = "load" /\ exc = "none"
    /\ \E checked \in check_and_download_file(clean_csv, "clean_collision_data.csv",
                                              RemoteClean) :
          /\ clean_csv' = checked.file
          /\ fetched' = fetched \cup checked.fetched
          /\ IF checked.file.exists
             THEN df' = checked.file.rows /\ pc' = "factors" /\ exc' = exc
             ELSE exc' = "FileNotFoundError" /\ UNCHANGED <<df, pc>>
    /\ UNCHANGED <<df_balanced, processed_csv, dbVars, appVars, cleanVars,
                   edaVars>>

\* lines 45-98
MapFactors ==
    /\ pc = "factors" /\ exc = "none"
    /\ df' = AddCols(df, [i \in 1..Len(df) |->
                [contributing_factor_category |-> contributing_factor_category(df[i])]])
    /\ pc' = "severity"
    /\ UNCHANGED <<clean_csv, exc, df_balanced, processed_csv, dbVars, appVars, cleanVars, fetched,
                   edaVars>>

\* lines 100-121
SeverityStep ==
    /\ pc = "severity" /\ exc = "none"
    /\ df' = AddCols(df, [i \in 1..Len(df) |->
                [total_deaths |-> total_deaths(df[i]),
                 total_injuries |-> total_injuries(df[i]),
                 severity_score |-> severity_score(df[i]),
                 severity_category |-> aggregate_severity(severity_score(df[i]))]])
    /\ pc' = "time"
    /\ UNCHANGED <<clean_csv, exc, df_balanced, processed_csv, dbVars, appVars, cleanVars, fetched,
                   edaVars>>

\* lines 123-129
TimeStep ==
    /\ pc = "time" /\ exc = "none"
    /\ df' = AddCols(df, [i \in 1..Len(df) |->
                [day_of_week |-> day_name(df[i].crash_datetime),
                 hour_of_day |-> hour(df[i].crash_datetime),
                 time_of_day |-> time_of_day(hour(df[i].crash_datetime)),
                 month       |-> month(df[i].crash_datetime)]])
    /\ pc' = "vehicle"
    /\ UNCHANGED <<clean_csv, exc, df_balanced, processed_csv, dbVars, appVars, cleanVars, fetched,
                   edaVars>>

\* lines 131-155: the code column is overwritten with its lower-cased form
VehicleStep ==
    /\ pc = "vehicle" /\ exc = "none"
    /\ df' = AddCols(df, [i \in 1..Len(df) |->
                [vehicle_type_code_1 |-> lower(df[i].vehicle_type_code_1),
                 vehicle_category    |->
                     vehicle_category(lower(df[i].vehicle_type_code_1))]])
    /\ pc' = "location"
    /\ UNCHANGED <<clean_csv, exc, df_balanced, processed_csv, dbVars, appVars, cleanVars, fetched,
                   edaVars>>

\* lines 157-161
LocationStep ==
    /\ pc = "location" /\ exc = "none"
    /\ df' = AddCols(df, [i \in 1..Len(df) |->
                [lat_rounded |-> round3(df[i].latitude),
                 lon_rounded |-> round3(df[i].longitude),
                 location_grid |-> location_grid(df[i])]])
    /\ pc' = "crash_rate"
    /\ UNCHANGED <<clean_csv, exc, df_balanced, processed_csv, dbVars, appVars, cleanVars, fetched,
                   edaVars>>

\* lines 163-164
CrashRateStep ==
    /\ pc = "crash_rate" /\ exc = "none"
    /\ df' = AddCols(df, [i \in 1..Len(df) |->
                [crash_rate |-> GroupMean(df, "location_grid", "severity_score", i)]])
    /\ pc' = "clusters"
    /\ UNCHANGED <<clean_csv, exc, df_balanced, processed_csv, dbVars, appVars, cleanVars, fetched,
                   edaVars>>

\* lines 166-178; assigning a list of another length than the frame raises
ClusterStep ==
    /\ pc = "clusters" /\ exc = "none"
    /\ LET total_clusters == cluster_in_chunks(df, ChunkSize)
       IN  IF Len(total_clusters) = Len(df)
           THEN /\ df' = AddCols(df, [i \in 1..Len(df) |->
                            [collision_cluster |-> total_clusters[i]]])
                /\ pc' = "balance"
                /\ exc' = exc
           ELSE /\ exc' = "ValueError: Length of values does not match length of index"
                /\ UNCHANGED <<df, pc>>
    /\ UNCHANGED <<clean_csv, df_balanced, processed_csv, dbVars, appVars, cleanVars, fetched,
                   edaVars>>

\* lines 180-186.  resample raises when asked for more rows than the majority
\* class has; asked for no row at all it raises or returns an empty frame,
\* depending on the scikit-learn release.
BalanceStep ==
    /\ pc = "balance" /\ exc = "none"
    /\ LET majority == majority_class(df)
           minority == minority_classes(df)
           n_samples == Len(minority)
       IN  \/ /\ n_samples > Len(majority) \/ n_samples = 0
              /\ exc' = "ValueError: resample"
              /\ UNCHANGED <<df_balanced, pc>>
           \/ /\ n_samples <= Len(majority)
              /\ \E majority_downsampled \in resample(majority, n_samples) :
                    df_balanced' = majority_downsampled \o minority
              /\ pc' = "save"
              /\ exc' = exc
    /\ UNCHANGED <<clean_csv, df, processed_csv, dbVars, appVars, cleanVars, fetched,
                   edaVars>>

\* lines 188-191
SaveStep ==
    /\ pc = "save" /\ exc = "none"
    /\ processed_csv' = [exists |-> TRUE, rows |-> df_balanced]
    /\ pc' = "done"
    /\ UNCHANGED <<clean_csv, exc, df, df_balanced, dbVars, appVars, cleanVars, fetched,
                   edaVars>>

\* the cleaned datasets of two deliveries: the rows of the remote dataset,
\* in Manhattan and in Brooklyn
SummaryDatasets ==
    LET d == CHOOSE x \in RemoteClean : TRUE
    IN  {[i \in 1..2 |-> [d[i] EXCEPT !.latitude = lat]] : lat \in {407128, 406500}}

\* the script is started again, after the cleaning stage has written
\* another cleaned dataset and the store has been built on the last one
FERunAgain ==
    /\ pc = "done" /\ db_pc = "done"
    /\ \E rows \in SummaryDatasets \ {clean_csv.rows} :
          clean_csv' = [exists |-> TRUE, rows |-> rows]
    /\ pc' = "load"
    /\ df' = <<>>
    /\ df_balanced' = <<>>
    /\ UNCHANGED <<exc, processed_csv, dbVars, appVars, cleanVars, fetched,
                   edaVars>>

NextFE ==
    \/ LoadClean
    \/ MapFactors
    \/ SeverityStep
    \/ TimeStep
    \/ VehicleStep
    \/ LocationStep
    \/ CrashRateStep
    \/ ClusterStep
    \/ BalanceStep
    \/ SaveStep

(***************************************************************************)
(* database_integration.py, step by step.                                  *)
(***************************************************************************)
\* the tables of a database file that has just been created
EmptyDb == [tables |-> {}, Boroughs |-> {}, Collisions |-> <<>>, GlobalStatistics |-> <<>>]

\* lines 61-64: one tuple per entry of borough_ranges
borough_data == {borough_ranges[k] : k \in 1..Len(borough_ranges)}

\* INSERT OR REPLACE on the primary key borough_name
insert_or_replace(table, rows) ==
    {t \in table : \A r \in rows : r.name # t.name} \cup rows

columns_to_insert ==
    {"severity_score", "severity_category", "crash_rate", "day_of_week",
     "time_of_day", "hour_of_day", "month", "vehicle_category",
     "contributing_factor_category", "location_grid", "collision_cluster",
     "latitude", "longitude", "borough"}

\* df[columns_to_insert]
select_columns(d, cols) == [i \in 1..Len(d) |-> [c \in cols |-> d[i][c]]]

\* the sum of two fractions, in lowest terms
AddFraction(a, b) == Fraction(a.num * b.den + b.num * a.den, a.den * b.den)

RECURSIVE SumFractions(_, _, _)
SumFractions(d, col, idx) ==
    IF idx = {} THEN Fraction(0, 1)
    ELSE LET i == CHOOSE j \in idx : TRUE
         IN  AddFraction(d[i][col], SumFractions(d, col, idx \ {i}))

\* SELECT AVG(col) over a table that has a row
AVG(d, col) ==
    LET total == SumFractions(d, col, 1..Len(d))
    IN  Fraction(total.num, total.den * Len(d))

\* round(x, digits) of a value that is not negative, as a whole number of
\* units of 1/scale; a tie goes to the even neighbour
round(x, scale) ==
    LET n == x.num * scale
        q == n \div x.den
        r == n % x.den
    IN  IF 2 * r < x.den THEN q
        ELSE IF 2 * r > x.den THEN q + 1
        ELSE IF q % 2 = 0 THEN q ELSE q + 1

\* SELECT COUNT(*) of the rows with the value v in the column
COUNT(d, col, v) == Cardinality({i \in 1..Len(d) : d[i][col] = v})

\* GROUP BY col ORDER BY COUNT(*) DESC LIMIT 1: the rows the query can return;
\* groups of the same size come in no defined order
most_frequent(d, col) ==
    LET groups == {d[i][col] : i \in 1..Len(d)}
    IN  {v \in groups : \A w \in groups : COUNT(d, col, w) <= COUNT(d, col, v)}

\* lines 137-143: the share of every category in tenths of a percent; the
\* dictionary stands for the string str() prints of it
severity_distribution(d) ==
    [c \in {d[i].severity_category : i \in 1..Len(d)} |->
        round(Fraction(COUNT(d, "severity_category", c) * 100, Len(d)), 10)]

\* lines 110-173, on a table that has a row: the rows of statistics the
\* queries can produce
global_statistics(d) ==
    {[total_collisions      |-> Len(d),
      avg_crash_rate        |-> round(AVG(d, "crash_rate"), 100),
      most_frequent_borough |-> b,
      peak_collision_time   |-> t,
      severity_distribution |-> severity_distribution(d),
      most_frequent_day     |-> w,
      most_common_factor    |-> f,
      most_common_vehicle   |-> v] :
        b \in most_frequent(d, "borough"),
        t \in most_frequent(d, "time_of_day"),
        w \in most_frequent(d, "day_of_week"),
        f \in most_frequent(d, "contributing_factor_category"),
        v \in most_frequent(d, "vehicle_category")}

\* lines 190-206: INSERT INTO GlobalStatistics
insert_into(table, row) == Append(table, row)

\* lines 15-20: the processed dataset is read; pd.read_csv raises when the
\* file is not there
DBLoad ==
    /\ db_pc = "load" /\ db_exc = "none"
    /\ IF processed_csv.exists
       THEN /\ db_df' = processed_csv.rows
            /\ db_pc' = "boroughs"
            /\ db_exc' = db_exc
       ELSE /\ db_exc' = "FileNotFoundError"
            /\ UNCHANGED <<db_pc, db_df>>
    /\ UNCHANGED <<feVars, appVars, cleanVars, fetched, db_runs, db, conn,
                   edaVars>>

\* lines 41-44
DBMapBoroughs ==
    /\ db_pc = "boroughs" /\ db_exc = "none"
    /\ db_df' = AddCols(db_df, [i \in 1..Len(db_df) |->
                [borough |-> get_borough(db_df[i].latitude, db_df[i].longitude)]])
    /\ db_pc' = "connect"
    /\ UNCHANGED <<feVars, appVars, cleanVars, fetched, db_exc, db_runs, db, conn,
                   edaVars>>

\* lines 46-66: sqlite3.connect; CREATE TABLE outside a transaction is
\* committed at once, the INSERT opens a transaction
DBBoroughsTable ==
    /\ db_pc = "connect" /\ db_exc = "none"
    /\ db' = [db EXCEPT !.tables = @ \cup {"Boroughs"}]
    /\ conn' = [db' EXCEPT !.Boroughs = insert_or_replace(@, borough_data)]
    /\ db_pc' = "collisions"
    /\ UNCHANGED <<feVars, appVars, cleanVars, fetched, db_df, db_exc, db_runs,
                   edaVars>>

\* lines 68-103: to_sql(if_exists='replace') drops the table, writes the
\* frame and commits the open transaction; the indexes hold no data
DBCollisionsTable ==
    /\ db_pc = "collisions" /\ db_exc = "none"
    /\ conn' = [conn EXCEPT !.tables = @ \cup {"Collisions"},
                            !.Collisions = select_columns(db_df, columns_to_insert)]
    /\ db' = conn'
    /\ db_pc' = "statistics"
    /\ UNCHANGED <<feVars, appVars, cleanVars, fetched, db_df, db_exc, db_runs,
                   edaVars>>

\* lines 105-207: AVG over no row is None, which round() rejects
DBStatistics ==
    /\ db_pc = "statistics" /\ db_exc = "none"
    /\ IF Len(conn.Collisions) = 0
       THEN /\ db_exc' = "TypeError"
            /\ UNCHANGED <<db_pc, db, conn>>
       ELSE /\ \E stats \in global_statistics(conn.Collisions) :
                  conn' = [conn EXCEPT
                              !.tables = @ \cup {"GlobalStatistics"},
                              !.GlobalStatistics = insert_into(@, stats)]
            /\ db' = [db EXCEPT !.tables = @ \cup {"GlobalStatistics"}]
            /\ db_pc' = "commit"
            /\ db_exc' = db_exc
    /\ UNCHANGED <<feVars, appVars, cleanVars, fetched, db_df, db_runs,
                   edaVars>>

\* lines 208-210
DBCommit ==
    /\ db_pc = "commit" /\ db_exc = "none"
    /\ db' = conn
    /\ db_pc' = "done"
    /\ UNCHANGED <<feVars, appVars, cleanVars, fetched, db_df, db_exc, db_runs, conn,
                   edaVars>>

\* the script is started again, on the database file the last run left
DBRunAgain ==
    /\ db_pc = "done" \/ db_exc # "none"
    /\ db_runs < MaxRuns
    /\ db_runs' = db_runs + 1
    /\ db_pc' = "load"
    /\ db_exc' = "none"
    /\ db_df' = <<>>
    /\ conn' = EmptyDb
    /\ UNCHANGED <<feVars, appVars, cleanVars, fetched, db,
                   edaVars>>

NextDB ==
    \/ DBLoad
    \/ DBMapBoroughs
    \/ DBBoroughsTable
    \/ DBCollisionsTable
    \/ DBStatistics
    \/ DBCommit

\* the persistence script run time and again
NextStore ==
    \/ NextDB
    \/ DBRunAgain

(***************************************************************************)
(* Strings that the code splits at underscores are kept as the sequence of *)
(* their pieces between single underscores: "cat__day_of_week_Monday" is   *)
(* <<"cat", "", "day", "of", "week", "Monday">>.  Joining two strings with *)
(* an underscore is the concatenation of their pieces.                     *)
(***************************************************************************)
\* s.startswith(p + "_"), for a prefix p that ends in an underscore
startswith(s, p) == Len(s) > Len(p) /\ SubSeq(s, 1, Len(p)) = p

\* s.split("__"): an empty piece inside s is a double underscore
RECURSIVE split_dunder(_)
split_dunder(s) ==
    LET at == {k \in 2..(Len(s) - 1) : s[k] = ""}
    IN  IF at = {} THEN <<s>>
        ELSE LET k == CHOOSE j \in at : \A i \in at : j <= i
             IN  <<SubSeq(s, 1, k - 1)>> \o split_dunder(SubSeq(s, k + 1, Len(s)))

\* s.rsplit("_", 1)[0]
rsplit_head(s) == IF Len(s) = 1 THEN s ELSE SubSeq(s, 1, Len(s) - 1)

\* s.split("_", 1)[0]
split_head(s) == <<s[1]>>

\* s.rsplit("_")[-1]
rsplit_last(s) == <<s[Len(s)]>>

(***************************************************************************)
(* machine_learning.py 64-84: the names of the trained features.           *)
(***************************************************************************)
categorical_features ==
    {<<"day", "of", "week">>, <<"time", "of", "day">>, <<"month">>,
     <<"vehicle", "category">>, <<"contributing", "factor", "category">>,
     <<"borough">>}

numerical_features == {<<"latitude">>, <<"longitude">>, <<"crash", "rate">>}

\* the dtype of a column of input_data as the form builds it
dtype_of(column) ==
    IF column \in numerical_features THEN "float64"
    ELSE IF column = <<"month">> THEN "int64"
    ELSE "object"

\* str() of a value of a column: digits for a number, the string itself
str(dtype, v) == IF dtype = "object" THEN v ELSE <<ToString(v)>>

\* the categories of the Collisions table the model was trained on
trained_categories ==
    (<<"day", "of", "week">> :> {<<"Monday">>, <<"Friday">>})
    @@ (<<"time", "of", "day">> :> {<<"Morning">>, <<"Evening">>})
    @@ (<<"month">> :> {1, 12})
    @@ (<<"vehicle", "category">> :> {<<"Passenger Vehicle">>, <<"Taxi">>})
    @@ (<<"contributing", "factor", "category">> :>
            {<<"Human Error">>, <<"Unknown/Other">>})
    @@ (<<"borough">> :> {<<"Manhattan">>, <<"Staten Island">>})

\* OneHotEncoder: the name of the column of one category
one_hot_name(column, category) ==
    <<"cat", "">> \o column \o str(dtype_of(column), category)

\* preprocessor.get_feature_names_out()
get_feature_names_out ==
    {<<"num", "">> \o c : c \in numerical_features}
    \cup UNION {{one_hot_name(c, v) : v \in trained_categories[c]} :
                    c \in categorical_features}

\* models/feature_names.txt as app.py reads it
feature_names == get_feature_names_out

(***************************************************************************)
(* app.py 30-61: create_aligned_input.  A one-row frame is a function from *)
(* its columns to cells; a cell is the dtype of the column and the value.  *)
(***************************************************************************)
Cell(dtype, v) == [dtype |-> dtype, v |-> v]

columns(frame) == DOMAIN frame

\* frame.astype(str)
astype_str(frame) ==
    [c \in columns(frame) |-> Cell("object", str(frame[c].dtype, frame[c].v))]

\* the numbers the form can submit: a latitude, a longitude, a crash rate in
\* hundredths, and the values of an aligned row
Floats == {0, 1, 250, 407128, -740060}

\* float(s) succeeds on the strings that spell a number
is_float(s) == \E x \in Floats : s = <<ToString(x)>>

float(s) == CHOOSE x \in Floats : s = <<ToString(x)>>

\* pd.DataFrame(1, index=[0], columns=feature_names, dtype='float64')
ones(names) == [f \in names |-> Cell("float64", 1)]

\* pd.DataFrame(0, index=[0], columns=feature_names, dtype='float64')
zeros(names) == [f \in names |-> Cell("float64", 0)]

\* the source column of a numerical feature: num_feature.split("__")[1]
feature_name(num_feature) == split_dunder(num_feature)[2]

\* the source column read off the first piece of the name
column_name_first_piece(category_name) == split_head(category_name)

\* the source column of a one-hot feature: category_name.rsplit("_", 1)[0]
column_name(category_name) == rsplit_head(category_name)

\* lines 51-55: whether the one-hot feature is the one of the input's value
is_hot(input, cat_feature) ==
    LET category_name == split_dunder(cat_feature)[2]
    IN  /\ column_name(category_name) \in columns(input)
        /\ input[column_name(category_name)].v = rsplit_last(cat_feature)

\* the frame returned, the messages printed and the exception raised, if any:
\* float() of a string that spells no number and the unpacking of a name
\* without exactly one double underscore raise ValueError, which is not caught
create_aligned_input(input_frame, names) ==
    LET input == astype_str(input_frame)
        num == {f \in names : startswith(f, <<"num", "">>)}
        cat == {f \in names : startswith(f, <<"cat", "">>)}
        num_missing == {f \in num : feature_name(f) \notin columns(input)}
        num_invalid == {f \in num \ num_missing : ~is_float(input[feature_name(f)].v)}
        cat_unpacked == {f \in cat : Len(split_dunder(f)) # 2}
        \* line 55 tests "column_name in input_data.columns" before it reads
        \* the column, so the lookup of the second loop never raises KeyError
        cat_key_error == {}
        out == {<<"Numerical Feature Missing", f>> : f \in num_missing}
               \cup {<<"Categorical Feature Missing", f>> : f \in cat_key_error}
    IN  IF num_invalid # {} \/ cat_unpacked # {}
        THEN [exc |-> "ValueError", out |-> out, aligned_input |-> zeros(names)]
        ELSE [exc |-> "none", out |-> out,
              aligned_input |->
                  [f \in names |->
                      IF f \in num \ num_missing
                      THEN Cell("float64", float(input[feature_name(f)].v))
                      ELSE IF f \in cat /\ is_hot(input, f) THEN Cell("float64", 1)
                      ELSE zeros(names)[f]]]

\* lines 267-280: the form is submitted and the input aligned; an exception
\* of create_aligned_input ends the run
AlignStep ==
    /\ app_pc = "form" /\ app_exc = "none"
    /\ LET result == create_aligned_input(input_data, feature_names)
       IN  /\ app_exc' = result.exc
           /\ app_out' = app_out \cup result.out
           /\ IF result.exc = "none"
              THEN aligned_input' = result.aligned_input /\ app_pc' = "predict"
              ELSE UNCHANGED <<aligned_input, app_pc>>
    /\ UNCHANGED <<feVars, dbVars, cleanVars, fetched, queryVars, sessionVars, input_data,
                   edaVars>>

(***************************************************************************)
(* app.py 63-90: load_filtered_data.  The WHERE clause is the sequence of  *)
(* its conditions, each with the number of its "?" placeholders; sqlite    *)
(* binds the parameters to the placeholders from left to right.            *)
(***************************************************************************)
selected_columns ==
    {"latitude", "longitude", "severity_score", "severity_category", "borough",
     "day_of_week", "time_of_day", "crash_rate", "contributing_factor_category",
     "vehicle_category", "collision_cluster", "month"}

in_list(column, values) == [column |-> column, op |-> "IN", placeholders |-> Len(values)]

between(column) == [column |-> column, op |-> "BETWEEN", placeholders |-> 2]

\* lines 69-85
where(boroughs, time_filter_type, time_value, months, days_of_week, factors, vehicles) ==
    <<in_list("borough", boroughs), in_list("month", months), in_list("day_of_week", days_of_week),
      in_list("contributing_factor_category", factors), in_list("vehicle_category", vehicles),
      IF time_filter_type = "Time of Day" THEN in_list("time_of_day", time_value)
      ELSE between("hour_of_day")>>

\* the parameters with factors ahead of days_of_week
params_factors_first(boroughs, time_value, months, days_of_week, factors, vehicles) ==
    boroughs \o months \o factors \o days_of_week \o vehicles \o time_value

\* lines 83 and 86
params(boroughs, time_value, months, days_of_week, factors, vehicles) ==
    boroughs \o months \o days_of_week \o factors \o vehicles \o time_value

RECURSIVE placeholders_before(_, _)
placeholders_before(conditions, k) ==
    IF k = 1 THEN 0
    ELSE placeholders_before(conditions, k - 1) + conditions[k - 1].placeholders

\* the parameters bound to the placeholders of condition k
bound(conditions, k, parameters) ==
    SubSeq(parameters, placeholders_before(conditions, k) + 1,
           placeholders_before(conditions, k) + conditions[k].placeholders)

\* to_sql stores a missing value as NULL
is_null(column, v) ==
    IF column \in {"month", "hour_of_day"} THEN v = NaNNum ELSE v = NaN

\* a condition on NULL is not true
holds(row, condition, values) ==
    /\ ~is_null(condition.column, row[condition.column])
    /\ IF condition.op = "IN"
       THEN \E i \in 1..Len(values) : row[condition.column] = values[i]
       ELSE values[1] <= row[condition.column] /\ row[condition.column] <= values[2]

\* line 88: the rows of the table that every condition holds for
read_sql_query(table, conditions, parameters) ==
    select_columns(
        take(table, {i \in 1..Len(table) :
                        \A k \in 1..Len(conditions) :
                            holds(table[i], conditions[k],
                                  bound(conditions, k, parameters))}),
        selected_columns)

load_filtered_data(table, boroughs, time_filter_type, time_value, months, days_of_week, factors, vehicles) ==
    read_sql_query(table,
        where(boroughs, time_filter_type, time_value, months, days_of_week,
              factors, vehicles),
        params(boroughs, time_value, months, days_of_week, factors, vehicles))

\* the sidebar before anything is selected
NoSelection ==
    [borough |-> <<>>, month |-> <<>>, day_of_week |-> <<>>, factor |-> <<>>,
     vehicle |-> <<>>, time_filter_type |-> "Time of Day", time_value |-> <<>>]

\* what the sidebar lets the user select: lists of boroughs, months, days,
\* factor categories and vehicle categories, and times of day or a range
Selections ==
    [borough : {<<>>, <<"Manhattan">>, <<"Manhattan", "Brooklyn">>},
     month : {<<>>, <<1>>, <<2, 1>>},
     day_of_week : {<<>>, <<"Monday">>, <<"Monday", "Friday">>},
     factor : {<<>>, <<"Human Error">>, <<"Human Error", "Unknown/Other">>},
     vehicle : {<<>>, <<"Passenger Vehicle">>, <<"Taxi", "Passenger Vehicle">>},
     time_filter_type : {"Time of Day"},
     time_value : {<<>>, <<"Morning">>, <<"Evening", "Morning">>}]
    \cup
    [borough : {<<>>, <<"Manhattan">>, <<"Manhattan", "Brooklyn">>},
     month : {<<>>, <<1>>, <<2, 1>>},
     day_of_week : {<<>>, <<"Monday">>, <<"Monday", "Friday">>},
     factor : {<<>>, <<"Human Error">>, <<"Human Error", "Unknown/Other">>},
     vehicle : {<<>>, <<"Passenger Vehicle">>, <<"Taxi", "Passenger Vehicle">>},
     time_filter_type : {"Time Range"},
     time_value : {<<0, 24>>, <<8, 8>>, <<9, 20>>, <<0, 7>>}]

\* lines 122-153: the sidebar is read and the filtered rows are loaded; the
\* query fails on a database without the Collisions table
LoadFiltered ==
    /\ app_pc = "sidebar" /\ app_exc = "none"
    /\ \E selection \in Selections :
          /\ filters' = selection
          /\ IF "Collisions" \in db.tables
             THEN /\ filtered_df' =
                        load_filtered_data(db.Collisions, selection.borough,
                            selection.time_filter_type, selection.time_value,
                            selection.month, selection.day_of_week,
                            selection.factor, selection.vehicle)
                  /\ app_pc' = "form"
                  /\ app_exc' = app_exc
             ELSE /\ app_exc' = "DatabaseError"
                  /\ UNCHANGED <<filtered_df, app_pc>>
    /\ UNCHANGED <<feVars, dbVars, cleanVars, fetched, sessionVars, input_data,
                   aligned_input, app_out,
                   edaVars>>

NextQuery == LoadFiltered

(***************************************************************************)
(* app.py as a whole.  Every interaction of a user runs the script from    *)
(* its top; run[u] holds the variables of the run of user u, and           *)
(* session_state[u] what st.session_state keeps between the runs.  The     *)
(* results of the functions under st.cache_data are shared by the users.   *)
(***************************************************************************)
Users == {1, 2}

\* the values of a list
Range(list) == {list[i] : i \in 1..Len(list)}

\* the key without the argument
cache_key_no_argument(func, argument) == <<func, "">>

\* the key of a cached result: the function and its argument
cache_key(func, argument) == <<func, argument>>

NoCache == [load_global_stats |-> {}, get_unique_values |-> {}]

\* the columns get_unique_values is called for
OptionColumns ==
    {"borough", "day_of_week", "contributing_factor_category", "vehicle_category",
     "time_of_day"}

NoRun ==
    [pc |-> "idle", exc |-> "none", model |-> <<>>, global_stats |-> <<>>,
     options |-> [c \in OptionColumns |-> {}], filters |-> NoSelection,
     filtered_df |-> <<>>, borough_ranges |-> {}, new_borough |-> "",
     changed |-> FALSE, avg_crash_rate |-> <<>>, input_data |-> <<>>,
     prediction |-> <<>>]

NoSessionState == [keys |-> {}, selected_borough |-> "", force_rerun |-> FALSE]

\* lines 97-101: the first record of SELECT * FROM GlobalStatistics
load_global_stats(d) == d.GlobalStatistics[1]

\* lines 108-112: the values of the column that are not NULL, each once (the
\* list in the order of the column is kept as the set of its elements)
get_unique_values(d, column) ==
    {d.Collisions[i][column] : i \in 1..Len(d.Collisions)}
        \ {v \in {NaN} : is_null(column, v)}

\* st.cache_data around load_global_stats
cached_global_stats(cache, d) ==
    LET key == cache_key("load_global_stats", "")
        hit == {e \in cache.load_global_stats : e.key = key}
    IN  IF hit # {}
        THEN [value |-> (CHOOSE e \in hit : TRUE).value, cache |-> cache]
        ELSE [value |-> load_global_stats(d),
              cache |-> [cache EXCEPT !.load_global_stats =
                            @ \cup {[key |-> key, value |-> load_global_stats(d)]}]]

\* st.cache_data around get_unique_values
cached_unique_values(cache, d, column) ==
    LET key == cache_key("get_unique_values", column)
        hit == {e \in cache.get_unique_values : e.key = key}
    IN  IF hit # {}
        THEN [value |-> (CHOOSE e \in hit : TRUE).value, cache |-> cache]
        ELSE [value |-> get_unique_values(d, column),
              cache |-> [cache EXCEPT !.get_unique_values =
                            @ \cup {[key |-> key,
                                     value |-> get_unique_values(d, column)]}]]

\* the calls of get_unique_values for a list of columns, one after the other
RECURSIVE unique_values(_, _, _, _)
unique_values(cache, d, column_list, options) ==
    IF column_list = <<>> THEN [options |-> options, cache |-> cache]
    ELSE LET r == cached_unique_values(cache, d, Head(column_list))
         IN  unique_values(r.cache, d, Tail(column_list),
                           [options EXCEPT ![Head(column_list)] = r.value])

\* lines 191-195: the boxes of the Boroughs table
get_borough_ranges(d) == d.Boroughs

\* list(borough_ranges.keys()): the names in the order of the table
unique_boroughs(ranges) ==
    SelectSeq([k \in 1..Len(borough_ranges) |-> borough_ranges[k].name],
              LAMBDA name : \E b \in ranges : b.name = name)

\* lines 222-225: the box of a borough
range_of(ranges, name) == CHOOSE b \in ranges : b.name = name

\* lines 232-243: the positions of a slider the model follows: its default,
\* the middle of the range, and its upper end
slider(min_value, max_value) == {(min_value + max_value) \div 2, max_value}

\* lines 253-262: SELECT AVG(crash_rate) of the rows of a borough, time of
\* day, month and day; no value when there is no such row
crash_rate_lookup(d, borough, time, m, day) ==
    LET found == {i \in 1..Len(d.Collisions) :
                     /\ d.Collisions[i].borough = borough
                     /\ d.Collisions[i].time_of_day = time
                     /\ d.Collisions[i].month = m
                     /\ d.Collisions[i].day_of_week = day}
    IN  IF found = {} THEN <<>>
        ELSE <<AVG(take(d.Collisions, found), "crash_rate")>>

\* lines 280-283: the label the loaded forest gives the input; the forest is
\* not interpreted, its answer is kept as the model and the input it is
\* computed from
predict(model, input) == [model |-> model, input |-> input]

\* the selections of the sidebar the sessions make
SessionSelections ==
    {[borough |-> <<"Manhattan">>, month |-> <<1>>, day_of_week |-> <<"Monday">>,
      factor |-> <<"Human Error">>, vehicle |-> <<"Passenger Vehicle">>,
      time_filter_type |-> "Time of Day", time_value |-> <<"Morning">>],
     [borough |-> <<"Manhattan", "Brooklyn">>, month |-> <<1>>,
      day_of_week |-> <<"Monday">>, factor |-> <<"Human Error">>,
      vehicle |-> <<"Passenger Vehicle", "Taxi">>,
      time_filter_type |-> "Time Range", time_value |-> <<0, 24>>]}

\* the boroughs the sessions choose in the select box
SessionBoroughs == {"Manhattan", "Brooklyn"}

\* the months the sessions choose in the form
SessionMonths == {1}

\* lines 17-120: the model files are loaded and the global summary is read
StatsStep(u) ==
    /\ run[u].pc = "start" /\ run[u].exc = "none"
    /\ IF ~artifacts.exists
       THEN /\ run' = [run EXCEPT ![u].exc = "FileNotFoundError"]
            /\ UNCHANGED cache_data
       ELSE IF "GlobalStatistics" \notin db.tables
       THEN /\ run' = [run EXCEPT ![u].exc = "DatabaseError",
                                 ![u].model = <<artifacts.model>>]
            /\ UNCHANGED cache_data
       ELSE IF cache_data.load_global_stats = {} /\ db.GlobalStatistics = <<>>
       THEN /\ run' = [run EXCEPT ![u].exc = "IndexError",
                                 ![u].model = <<artifacts.model>>]
            /\ UNCHANGED cache_data
       ELSE LET r == cached_global_stats(cache_data, db)
            IN  /\ run' = [run EXCEPT ![u].pc = "sidebar",
                                      ![u].model = <<artifacts.model>>,
                                      ![u].global_stats = <<r.value>>]
                /\ cache_data' = r.cache
    /\ UNCHANGED <<feVars, dbVars, cleanVars, fetched, alignVars, queryVars,
                   session_state, artifacts,
                   edaVars>>

\* lines 121-184: the options of the sidebar are read, "Unknown" is taken
\* from the boroughs, and the filtered rows are loaded
SidebarStep(u) ==
    /\ run[u].pc = "sidebar" /\ run[u].exc = "none"
    /\ \E selection \in SessionSelections :
          IF "Collisions" \notin db.tables
          THEN /\ run' = [run EXCEPT ![u].exc = "DatabaseError"]
               /\ UNCHANGED cache_data
          ELSE LET r == unique_values(cache_data, db,
                            <<"borough", "day_of_week",
                              "contributing_factor_category", "vehicle_category">>
                            \o (IF selection.time_filter_type = "Time of Day"
                                THEN <<"time_of_day">> ELSE <<>>),
                            run[u].options)
               IN  /\ cache_data' = r.cache
                   /\ IF "Unknown" \notin r.options["borough"]
                      THEN run' = [run EXCEPT ![u].exc = "ValueError",
                                              ![u].options = r.options]
                      ELSE run' = [run EXCEPT
                              ![u].pc = "borough",
                              ![u].options = [r.options EXCEPT
                                                 !["borough"] = @ \ {"Unknown"}],
                              ![u].filters = selection,
                              ![u].filtered_df =
                                  load_filtered_data(db.Collisions,
                                      selection.borough, selection.time_filter_type,
                                      selection.time_value, selection.month,
                                      selection.day_of_week, selection.factor,
                                      selection.vehicle)]
    /\ UNCHANGED <<feVars, dbVars, cleanVars, fetched, alignVars, queryVars,
                   session_state, artifacts,
                   edaVars>>

\* lines 186-225: the boxes are read, the keys of the session state are set
\* on the first run, and the borough of the select box is taken over; on
\* the first run the select box shows its first option
BoroughStep(u) ==
    /\ run[u].pc = "borough" /\ run[u].exc = "none"
    /\ LET ranges == get_borough_ranges(db)
           names == unique_boroughs(ranges)
       IN  IF names = <<>>
           THEN /\ run' = [run EXCEPT ![u].exc = "IndexError"]
                /\ UNCHANGED session_state
           ELSE \E new_borough \in
                    IF session_state[u].keys = {} THEN {names[1]}
                    ELSE SessionBoroughs \cap Range(names) :
                  LET initialised ==
                          IF session_state[u].keys = {}
                          THEN [keys |-> {"selected_borough", "force_rerun"},
                                selected_borough |-> names[1],
                                force_rerun |-> FALSE]
                          ELSE session_state[u]
                      changed == new_borough # initialised.selected_borough
                  IN  /\ session_state' =
                            [session_state EXCEPT ![u] =
                                IF changed
                                THEN [initialised EXCEPT
                                         !.selected_borough = new_borough,
                                         !.force_rerun = TRUE]
                                ELSE initialised]
                      /\ run' = [run EXCEPT ![u].pc = "form",
                                            ![u].borough_ranges = ranges,
                                            ![u].new_borough = new_borough,
                                            ![u].changed = changed]
    /\ UNCHANGED <<feVars, dbVars, cleanVars, fetched, alignVars, queryVars,
                   cache_data, artifacts,
                   edaVars>>

\* lines 227-288: the form is rendered, the crash rate of the inputs is
\* looked up, and a submitted form is predicted
FormStep(u) ==
    /\ run[u].pc = "form" /\ run[u].exc = "none"
    /\ LET selected_borough == session_state[u].selected_borough
           box == range_of(run[u].borough_ranges, selected_borough)
           r == unique_values(cache_data, db,
                    <<"contributing_factor_category", "vehicle_category",
                      "day_of_week", "time_of_day">>, run[u].options)
       IN  /\ cache_data' = r.cache
           /\ \E input_latitude \in slider(box.lat_min, box.lat_max),
                 input_longitude \in slider(box.lon_min, box.lon_max),
                 input_factor \in r.options["contributing_factor_category"],
                 input_vehicle \in r.options["vehicle_category"],
                 input_month \in SessionMonths,
                 input_day_of_week \in r.options["day_of_week"],
                 input_time_of_day \in r.options["time_of_day"],
                 submitted \in BOOLEAN :
                 LET avg_crash_rate ==
                         crash_rate_lookup(db, selected_borough, input_time_of_day,
                                           input_month, input_day_of_week)
                     input_data_ ==
                         [borough |-> selected_borough,
                          time_of_day |-> input_time_of_day,
                          contributing_factor_category |-> input_factor,
                          vehicle_category |-> input_vehicle,
                          crash_rate |-> avg_crash_rate,
                          latitude |-> input_latitude,
                          longitude |-> input_longitude,
                          month |-> input_month,
                          day_of_week |-> input_day_of_week]
                 IN  run' = [run EXCEPT
                        ![u].pc = "done",
                        ![u].options = r.options,
                        ![u].avg_crash_rate = avg_crash_rate,
                        ![u].input_data =
                            IF submitted THEN <<input_data_>> ELSE <<>>,
                        ![u].prediction =
                            IF submitted
                            THEN <<predict(run[u].model[1], input_data_)>>
                            ELSE <<>>]
    /\ UNCHANGED <<feVars, dbVars, cleanVars, fetched, alignVars, queryVars,
                   session_state, artifacts,
                   edaVars>>

\* the next interaction of the user stops the run and runs the script again
RerunStep(u) ==
    /\ run[u].pc \notin {"idle", "start"} \/ run[u].exc # "none"
    /\ run' = [run EXCEPT ![u] = [NoRun EXCEPT !.pc = "start"]]
    /\ UNCHANGED <<feVars, dbVars, cleanVars, fetched, alignVars, queryVars,
                   cache_data, session_state, artifacts,
                   edaVars>>

NextSessions ==
    \E u \in Users :
        \/ StatsStep(u)
        \/ SidebarStep(u)
        \/ BoroughStep(u)
        \/ FormStep(u)
        \/ RerunStep(u)

(***************************************************************************)
(* exploratory_data_analysis.py, step by step.                             *)
(***************************************************************************)
\* lines 29-34: the cleaned dataset is fetched if it is missing, and read
EdaLoad ==
    /\ eda_pc = "load" /\ eda_exc = "none"
    /\ \E checked \in check_and_download_file(clean_csv, "clean_collision_data.csv",
                                              RemoteClean) :
          /\ clean_csv' = checked.file
          /\ fetched' = fetched \cup checked.fetched
          /\ IF checked.file.exists
             THEN eda_df' = checked.file.rows /\ eda_pc' = "counts"
                  /\ eda_exc' = eda_exc
             ELSE eda_exc' = "FileNotFoundError" /\ UNCHANGED <<eda_df, eda_pc>>
    /\ UNCHANGED <<pc, exc, df, df_balanced, processed_csv, dbVars, appVars,
                   cleanVars, scored>>

\* lines 36-88: the values of the factor columns are counted; a column that
\* is not in the dataset raises KeyError
EdaCounts ==
    /\ eda_pc = "counts" /\ eda_exc = "none"
    /\ IF \E i \in 1..Len(eda_df) :
             ~(Range(secondary_factors) \subseteq DOMAIN eda_df[i])
       THEN eda_exc' = "KeyError" /\ UNCHANGED eda_pc
       ELSE eda_pc' = "fallback" /\ UNCHANGED eda_exc
    /\ UNCHANGED <<feVars, dbVars, appVars, cleanVars, fetched, eda_df, scored>>

\* line 103
EdaFallback ==
    /\ eda_pc = "fallback" /\ eda_exc = "none"
    /\ eda_df' = AddCols(eda_df, [i \in 1..Len(eda_df) |->
                    [primary_contributing_factor |->
                        determine_primary_contributing_factor(eda_df[i])]])
    /\ eda_pc' = "drop"
    /\ UNCHANGED <<feVars, dbVars, appVars, cleanVars, fetched, eda_exc, scored>>

\* lines 106-109
EdaDrop ==
    /\ eda_pc = "drop" /\ eda_exc = "none"
    /\ eda_df' = [i \in 1..Len(eda_df) |-> drop(eda_df[i], Range(secondary_factors))]
    /\ eda_pc' = "done"
    /\ UNCHANGED <<feVars, dbVars, appVars, cleanVars, fetched, eda_exc, scored>>

NextEDA == EdaLoad \/ EdaCounts \/ EdaFallback \/ EdaDrop

(***************************************************************************)
(* The two severity classifiers applied to one score.                      *)
(***************************************************************************)
\* feature_engineering.py 118: a whole score is the int the stage computes,
\* any other score a float
Categorise ==
    /\ scored.severity_category = "none"
    /\ scored' = [scored EXCEPT !.severity_category =
                     IF scored.score % Hundredths = 0
                     THEN aggregate_severity(scored.score \div Hundredths)
                     ELSE aggregate_severity_of_float(scored.score)]
    /\ UNCHANGED <<feVars, dbVars, appVars, cleanVars, fetched, eda_pc, eda_df,
                   eda_exc>>

\* severity_threshold_analysis.py 67
AssignLevel ==
    /\ scored.severity_level = "none"
    /\ scored' = [scored EXCEPT !.severity_level =
                     assign_severity_level(scored.score)]
    /\ UNCHANGED <<feVars, dbVars, appVars, cleanVars, fetched, eda_pc, eda_df,
                   eda_exc>>

NextThreshold == Categorise \/ AssignLevel

NextAlign == AlignStep

Next == NextFE \/ NextDB

(***************************************************************************)
(* Initial states: the cleaned datasets the scripts are run on.            *)
(***************************************************************************)
count_cols ==
    {"number_of_persons_injured", "number_of_persons_killed",
     "number_of_pedestrians_injured", "number_of_pedestrians_killed",
     "number_of_cyclist_injured", "number_of_cyclist_killed",
     "number_of_motorist_injured", "number_of_motorist_killed"}

NoCasualty == [c \in count_cols |-> 0]

OneInjured == [NoCasualty EXCEPT !["number_of_persons_injured"] = 1]

OneKilled == [NoCasualty EXCEPT !["number_of_pedestrians_killed"] = 1]

\* a row of the cleaned dataset with every column the scripts read
CleanRecord(lat, lon, counts, factor, vehicle, ts) ==
    [latitude |-> lat, longitude |-> lon,
     contributing_factor_vehicle_1 |-> factor,
     vehicle_type_code_1 |-> vehicle,
     crash_datetime |-> ts]
        @@ counts

\* a row of the cleaned dataset: a sedan, on a Monday morning in January
CleanRow(lat, lon, counts, factor) ==
    CleanRecord(lat, lon, counts, factor, "Sedan", Timestamp("Monday", 8, 1))

\* City Hall, 40.7128 N 74.0060 W
HomeLat == 407128

HomeLon == -740060

\* factor codes of the collision data that factor_mapping has no key for
UnmappedFactors ==
    {"Turning Improperly", "Passing or Lane Usage Improper", "Unsafe Lane Changing"}

FactorValues == DOMAIN factor_mapping \cup UnmappedFactors

\* one row, every combination of the eight counts; one row, every factor code
ScoreDatasets ==
    {<<CleanRow(HomeLat, HomeLon, c, "Unspecified")>> :
        c \in [count_cols -> 0..MaxCount]}
    \cup {<<CleanRow(HomeLat, HomeLon, NoCasualty, f)>> : f \in FactorValues}

\* latitudes on one meridian: neighbours are within eps, the two ends are not
ClusterLats == {400000, 405000, 410000}

ClusterRows == {CleanRow(lat, HomeLon, NoCasualty, "Unspecified") : lat \in ClusterLats}

ClusterDatasets == UNION {[1..n -> ClusterRows] : n \in 1..MaxRecords}

\* two latitudes of one grid cell and one of another cell; Low and Medium rows
BalanceLats == {407001, 407003, 407020}

BalanceRows ==
    {CleanRow(lat, HomeLon, c, "Unspecified") :
        lat \in BalanceLats, c \in {OneInjured, OneKilled}}

BalanceDatasets == UNION {[1..n -> BalanceRows] : n \in 1..MaxBalanceRecords}

\* every bound of a bounding box, and the values next to it on either side
EdgeLats ==
    UNION {{b - 1, b, b + 1} :
        b \in {borough_ranges[k].lat_min : k \in 1..Len(borough_ranges)}
              \cup {borough_ranges[k].lat_max : k \in 1..Len(borough_ranges)}}

EdgeLons ==
    UNION {{b - 1, b, b + 1} :
        b \in {borough_ranges[k].lon_min : k \in 1..Len(borough_ranges)}
              \cup {borough_ranges[k].lon_max : k \in 1..Len(borough_ranges)}}

\* a Low and a Medium row at one point, the point on the grid of box edges
BoroughDatasets ==
    {<<CleanRow(lat, lon, NoCasualty, "Unspecified"),
       CleanRow(lat, lon, OneKilled, "Unspecified")>> :
        lat \in EdgeLats, lon \in EdgeLons}

\* vehicle type codes as the collision data spells them, the placeholder of
\* the cleaning stage among them
VehicleValues ==
    {"Sedan", "SEDAN", "sedan", "Station Wagon/Sport Utility Vehicle",
     "PASSENGER VEHICLE", "SPORT UTILITY / STATION WAGON", "Taxi", "TAXI",
     "Pick-up Truck", "PICK-UP TRUCK", "4 dr sedan", "4 Dr Sedan", "Box Truck",
     "Van", "VAN", "Bus", "BUS", "Bike", "bike", "BICYCLE", "E-Bike",
     "Motorcycle", "Unknown", "UNKNOWN"}

\* factor codes in the spelling of the table and in other spellings
CaseFactors ==
    {"Unsafe Speed", "UNSAFE SPEED", "unsafe speed", "Drugs (Illegal)",
     "Drugs (illegal)", "Cell Phone (hand-held)", "Cell Phone (hand-Held)",
     "Unspecified", "UNSPECIFIED", "Turning Improperly", "TURNING IMPROPERLY"}

\* every hour of the day, and a timestamp that could not be parsed
CrashTimes == {Timestamp("Monday", h, 1) : h \in 0..23} \cup {NaT}

\* two rows that differ in the vehicle code or in the factor code; one row at
\* every hour
CategoryDatasets ==
    {<<CleanRecord(HomeLat, HomeLon, NoCasualty, "Unspecified", v1,
                   Timestamp("Monday", 8, 1)),
       CleanRecord(HomeLat, HomeLon, NoCasualty, "Unspecified", v2,
                   Timestamp("Monday", 8, 1))>> :
        v1 \in VehicleValues, v2 \in VehicleValues}
    \cup {<<CleanRow(HomeLat, HomeLon, NoCasualty, f1),
            CleanRow(HomeLat, HomeLon, NoCasualty, f2)>> :
            f1 \in CaseFactors, f2 \in CaseFactors}
    \cup {<<CleanRecord(HomeLat, HomeLon, NoCasualty, "Unspecified", "Sedan", ts)>> :
            ts \in CrashTimes}

\* a latitude of the Brooklyn box south of the Manhattan box
BrooklynLat == 406500

\* Low and Medium rows, in two boroughs, of two vehicle categories
StoreRows ==
    {CleanRecord(lat, HomeLon, c, "Unspecified", v, Timestamp("Monday", 8, 1)) :
        lat \in {HomeLat, BrooklynLat}, c \in {NoCasualty, OneKilled},
        v \in {"Sedan", "Taxi"}}

StoreDatasets == [1..2 -> StoreRows]

\* no frame yet
NoFrame == <<>>

\* per column, the values the input can carry: a trained category or two and
\* one that was not trained; a latitude, a longitude, a crash rate
input_values ==
    (<<"day", "of", "week">> :> {<<"Monday">>, <<"Sunday">>})
    @@ (<<"time", "of", "day">> :> {<<"Morning">>, <<"Night">>})
    @@ (<<"month">> :> {1, 12, 6})
    @@ (<<"vehicle", "category">> :> {<<"Taxi">>, <<"Bus">>})
    @@ (<<"contributing", "factor", "category">> :>
            {<<"Human Error">>, <<"Unknown/Other">>})
    @@ (<<"borough">> :> {<<"Manhattan">>, <<"Staten Island">>, <<"Bronx">>})
    @@ (<<"latitude">> :> {407128})
    @@ (<<"longitude">> :> {-740060})
    @@ (<<"crash", "rate">> :> {250})

input_cells(column) == {Cell(dtype_of(column), v) : v \in input_values[column]}

\* the one-row frames over a set of columns
RECURSIVE FramesOver(_)
FramesOver(cols) ==
    IF cols = {} THEN {NoFrame}
    ELSE LET c == CHOOSE x \in cols : TRUE
         IN  {(c :> cell) @@ frame :
                 cell \in input_cells(c), frame \in FramesOver(cols \ {c})}

\* one-row frames over every subset of the columns of the form
InputFrames == UNION {FramesOver(cols) : cols \in SUBSET (DOMAIN input_values)}

\* a file that is not there
NoFile == [exists |-> FALSE, rows |-> <<>>]

\* a row of the raw dataset
RawRow(id, lat, lon, counts, date, time) ==
    [k \in DOMAIN standard_name |->
        CASE k = "COLLISION_ID" -> id
          [] k = "LATITUDE" -> lat
          [] k = "LONGITUDE" -> lon
          [] k = "CRASH DATE" -> date
          [] k = "CRASH TIME" -> time
          [] k = "BOROUGH" -> NaN
          [] k = "CONTRIBUTING FACTOR VEHICLE 1" -> NaN
          [] k = "VEHICLE TYPE CODE 1" -> "Sedan"
          [] OTHER -> counts[standard_name[k]]]

Monday == [day_name |-> "Monday", month |-> 1]

\* a date that cannot be parsed
NoDate == [day_name |-> NaN, month |-> NaNNum]

\* one row: with or without latitude and longitude, every count either
\* missing or present, the present ones all 0 or all 1; two rows that are
\* equal, or equal but for the collision id; a row without a date
RawDatasets ==
    {<<RawRow(1, lat, lon, c, Monday, 8)>> :
        lat \in {NaNNum, HomeLat}, lon \in {NaNNum, HomeLon},
        c \in [count_cols -> {NaNNum, 0}] \cup [count_cols -> {NaNNum, 1}]}
    \cup {<<RawRow(1, HomeLat, HomeLon, OneInjured, Monday, 8),
            RawRow(id, HomeLat, HomeLon, OneInjured, Monday, 8)>> : id \in {1, 2}}
    \cup {<<RawRow(1, HomeLat, HomeLon, OneInjured, date, time)>> :
            date \in {Monday, NoDate}, time \in {8, NaNNum}}

\* a row of the Collisions table: the columns the pipeline derives from the
\* place, the time, the factor and the vehicle of a collision without casualty
CollisionRow(lat, ts, factor, vehicle) ==
    [severity_score |-> 0, severity_category |-> "Low",
     crash_rate |-> Fraction(0, 1),
     day_of_week |-> day_name(ts), time_of_day |-> time_of_day(hour(ts)),
     hour_of_day |-> hour(ts), month |-> month(ts),
     vehicle_category |-> vehicle_category(lower(vehicle)),
     contributing_factor_category |-> MapDict(factor_mapping, factor),
     location_grid |-> <<round3(lat), round3(HomeLon)>>,
     collision_cluster |-> -1,
     latitude |-> lat, longitude |-> HomeLon,
     borough |-> get_borough(lat, HomeLon)]

\* a Manhattan sedan on a Monday morning in January, unsafe speed
BaseCollision ==
    CollisionRow(HomeLat, Timestamp("Monday", 8, 1), "Unsafe Speed", "Sedan")

\* rows that differ from it in one column the filters read, or in all
OtherCollisions ==
    {BaseCollision,
     CollisionRow(BrooklynLat, Timestamp("Monday", 8, 1), "Unsafe Speed", "Sedan"),
     CollisionRow(HomeLat, Timestamp("Monday", 8, 2), "Unsafe Speed", "Sedan"),
     CollisionRow(HomeLat, Timestamp("Friday", 8, 1), "Unsafe Speed", "Sedan"),
     CollisionRow(HomeLat, Timestamp("Monday", 20, 1), "Unsafe Speed", "Sedan"),
     CollisionRow(HomeLat, Timestamp("Monday", 9, 1), "Unsafe Speed", "Sedan"),
     CollisionRow(HomeLat, NaT, "Unsafe Speed", "Sedan"),
     CollisionRow(HomeLat, Timestamp("Monday", 8, 1), "Unspecified", "Sedan"),
     CollisionRow(HomeLat, Timestamp("Monday", 8, 1), "Turning Improperly", "Sedan"),
     CollisionRow(HomeLat, Timestamp("Monday", 8, 1), "Unsafe Speed", "Taxi"),
     CollisionRow(BrooklynLat, Timestamp("Friday", 20, 2), "Unspecified", "Taxi")}

\* the database after a run of the persistence stage on two rows, and the
\* database before any run
QueryDatabases ==
    {[EmptyDb EXCEPT !.tables = {"Boroughs", "Collisions", "GlobalStatistics"},
                     !.Boroughs = borough_data,
                     !.Collisions = <<BaseCollision, other>>] :
        other \in OtherCollisions}
    \cup {EmptyDb}

\* a collision outside every box
UnknownCollision ==
    CollisionRow(400000, Timestamp("Monday", 8, 1), "Unsafe Speed", "Sedan")

\* a Brooklyn taxi in the evening
BrooklynCollision ==
    CollisionRow(BrooklynLat, Timestamp("Monday", 20, 1), "Unsafe Speed", "Taxi")

\* the database after a run of the persistence stage
StoreOf(collisions) ==
    [tables |-> {"Boroughs", "Collisions", "GlobalStatistics"},
     Boroughs |-> borough_data,
     Collisions |-> collisions,
     GlobalStatistics |->
        <<CHOOSE row \in global_statistics(collisions) : TRUE>>]

\* the databases the sessions read: with and without a collision outside
\* the boxes, and the database before any run
SessionDatabases ==
    {StoreOf(<<BaseCollision, BrooklynCollision, UnknownCollision>>),
     StoreOf(<<BaseCollision, BrooklynCollision>>),
     EmptyDb}

\* the files of the trained model
Artifacts == [exists |-> TRUE, model |-> "random_forest_model.pkl"]

\* a cleaned row with its five factor codes
FactorRow(f1, f2, f3, f4, f5) ==
    CleanRow(HomeLat, HomeLon, NoCasualty, f1)
        @@ [contributing_factor_vehicle_2 |-> f2,
            contributing_factor_vehicle_3 |-> f3,
            contributing_factor_vehicle_4 |-> f4,
            contributing_factor_vehicle_5 |-> f5]

\* every factor a placeholder or a code, the code of each column its own
FactorRows ==
    {FactorRow(f1, f2, f3, f4, f5) :
        f1 \in placeholders \cup {"Unsafe Speed"},
        f2 \in placeholders \cup {"Pavement Slippery"},
        f3 \in placeholders \cup {"Brakes Defective"},
        f4 \in placeholders \cup {"Glare"},
        f5 \in placeholders \cup {"Tire Failure/Inadequate"}}

\* one row, and the row with the row that has its primary factor and no
\* secondary factor
FactorDatasets ==
    {<<r>> : r \in FactorRows}
    \cup {<<r, FactorRow(r.contributing_factor_vehicle_1, "Unknown", "Unknown",
                        "Unknown", "Unknown")>> : r \in FactorRows}

\* the exploratory analysis is not run
\* the largest severity score classified, in whole units
MaxScore == 12

Unscored(score) ==
    [score |-> score, severity_category |-> "none", severity_level |-> "none"]

NoScore == Unscored(0)

\* the non-negative scores up to MaxScore, whole and fractional
Scores == 0..(MaxScore * Hundredths)

NoAnalysis ==
    /\ eda_pc = "idle" /\ eda_df = <<>> /\ eda_exc = "none"
    /\ scored = NoScore

\* no user has opened the dashboard
NoSessions ==
    /\ cache_data = NoCache
    /\ run = [u \in Users |-> NoRun]
    /\ session_state = [u \in Users |-> NoSessionState]
    /\ artifacts = Artifacts

InitOn(datasets) ==
    /\ clean_csv \in {[exists |-> TRUE, rows |-> d] : d \in datasets}
    /\ pc = "load"
    /\ exc = "none"
    /\ df = <<>>
    /\ df_balanced = <<>>
    /\ processed_csv = [exists |-> FALSE, rows |-> <<>>]
    /\ db_pc = "load"
    /\ db_df = <<>>
    /\ db_exc = "none"
    /\ db_runs = 1
    /\ db = EmptyDb
    /\ conn = EmptyDb
    /\ app_pc = "idle"
    /\ input_data = NoFrame
    /\ aligned_input = NoFrame
    /\ app_out = {}
    /\ app_exc = "none"
    /\ filters = NoSelection
    /\ filtered_df = <<>>
    /\ NoSessions
    /\ NoAnalysis
    /\ raw_csv = NoFile
    /\ cl_pc = "load" /\ cl_df = <<>> /\ cl_exc = "none"
    /\ fetched = {}
    /\ raw_csv = NoFile
    /\ cl_pc = "load" /\ cl_df = <<>> /\ cl_exc = "none"
    /\ fetched = {}

Init == InitOn(BoroughDatasets)

InitScore == InitOn(ScoreDatasets)

InitCluster == InitOn(ClusterDatasets)

InitBalance == InitOn(BalanceDatasets)

InitCategory == InitOn(CategoryDatasets)

InitStore == InitOn(StoreDatasets)

\* data_cleaning.py about to run, the raw dataset there or not
InitClean ==
    /\ raw_csv \in {[exists |-> TRUE, rows |-> d] : d \in RawDatasets} \cup {NoFile}
    /\ cl_pc = "load" /\ cl_df = <<>> /\ cl_exc = "none"
    /\ fetched = {}
    /\ clean_csv = NoFile
    /\ pc = "load" /\ exc = "none" /\ df = <<>> /\ df_balanced = <<>>
    /\ processed_csv = NoFile
    /\ db_pc = "load" /\ db_df = <<>> /\ db_exc = "none" /\ db_runs = 1
    /\ db = EmptyDb /\ conn = EmptyDb
    /\ app_pc = "idle" /\ input_data = NoFrame /\ aligned_input = NoFrame
    /\ app_out = {} /\ app_exc = "none"
    /\ filters = NoSelection /\ filtered_df = <<>>
    /\ NoSessions
    /\ NoAnalysis

\* the three scripts about to run, the raw and the cleaned dataset there or not
InitFiles ==
    /\ raw_csv \in {[exists |-> TRUE, rows |-> d] : d \in RemoteRaw} \cup {NoFile}
    /\ cl_pc = "load" /\ cl_df = <<>> /\ cl_exc = "none"
    /\ fetched = {}
    /\ clean_csv \in {[exists |-> TRUE, rows |-> d] : d \in RemoteClean} \cup {NoFile}
    /\ pc = "load" /\ exc = "none" /\ df = <<>> /\ df_balanced = <<>>
    /\ processed_csv = NoFile
    /\ db_pc = "load" /\ db_df = <<>> /\ db_exc = "none" /\ db_runs = 1
    /\ db = EmptyDb /\ conn = EmptyDb
    /\ app_pc = "idle" /\ input_data = NoFrame /\ aligned_input = NoFrame
    /\ app_out = {} /\ app_exc = "none"
    /\ filters = NoSelection /\ filtered_df = <<>>
    /\ NoSessions
    /\ NoAnalysis

\* the dashboard about to read its sidebar
InitQuery ==
    /\ raw_csv = NoFile
    /\ cl_pc = "load" /\ cl_df = <<>> /\ cl_exc = "none"
    /\ fetched = {}
    /\ clean_csv = NoFile
    /\ pc = "load" /\ exc = "none" /\ df = <<>> /\ df_balanced = <<>>
    /\ processed_csv = NoFile
    /\ db_pc = "load" /\ db_df = <<>> /\ db_exc = "none" /\ db_runs = 1
    /\ db \in QueryDatabases /\ conn = EmptyDb
    /\ app_pc = "sidebar" /\ input_data = NoFrame /\ aligned_input = NoFrame
    /\ app_out = {} /\ app_exc = "none"
    /\ filters = NoSelection /\ filtered_df = <<>>
    /\ NoSessions
    /\ NoAnalysis

\* feature engineering and the exploratory analysis about to run on rows
\* with secondary factors
InitFactors ==
    /\ clean_csv \in {[exists |-> TRUE, rows |-> d] : d \in FactorDatasets}
    /\ pc = "load" /\ exc = "none" /\ df = <<>> /\ df_balanced = <<>>
    /\ processed_csv = NoFile
    /\ db_pc = "load" /\ db_df = <<>> /\ db_exc = "none" /\ db_runs = 1
    /\ db = EmptyDb /\ conn = EmptyDb
    /\ app_pc = "idle" /\ input_data = NoFrame /\ aligned_input = NoFrame
    /\ app_out = {} /\ app_exc = "none"
    /\ filters = NoSelection /\ filtered_df = <<>>
    /\ NoSessions
    /\ raw_csv = NoFile
    /\ cl_pc = "load" /\ cl_df = <<>> /\ cl_exc = "none"
    /\ fetched = {}
    /\ eda_pc = "load" /\ eda_df = <<>> /\ eda_exc = "none"
    /\ scored = NoScore

\* a severity score about to be classified by both classifiers
InitThreshold ==
    /\ clean_csv = NoFile
    /\ pc = "load" /\ exc = "none" /\ df = <<>> /\ df_balanced = <<>>
    /\ processed_csv = NoFile
    /\ db_pc = "load" /\ db_df = <<>> /\ db_exc = "none" /\ db_runs = 1
    /\ db = EmptyDb /\ conn = EmptyDb
    /\ app_pc = "idle" /\ input_data = NoFrame /\ aligned_input = NoFrame
    /\ app_out = {} /\ app_exc = "none"
    /\ filters = NoSelection /\ filtered_df = <<>>
    /\ NoSessions
    /\ raw_csv = NoFile
    /\ cl_pc = "load" /\ cl_df = <<>> /\ cl_exc = "none"
    /\ fetched = {}
    /\ eda_pc = "idle" /\ eda_df = <<>> /\ eda_exc = "none"
    /\ scored \in {Unscored(score) : score \in Scores}

\* the pipeline about to run, and a user who opens the dashboard
InitSummary ==
    /\ clean_csv \in {[exists |-> TRUE, rows |-> d] : d \in SummaryDatasets}
    /\ pc = "load" /\ exc = "none" /\ df = <<>> /\ df_balanced = <<>>
    /\ processed_csv = NoFile
    /\ db_pc = "load" /\ db_df = <<>> /\ db_exc = "none" /\ db_runs = 1
    /\ db = EmptyDb /\ conn = EmptyDb
    /\ app_pc = "idle" /\ input_data = NoFrame /\ aligned_input = NoFrame
    /\ app_out = {} /\ app_exc = "none"
    /\ filters = NoSelection /\ filtered_df = <<>>
    /\ cache_data = NoCache
    /\ run = [u \in Users |-> IF u = 1 THEN [NoRun EXCEPT !.pc = "start"] ELSE NoRun]
    /\ session_state = [u \in Users |-> NoSessionState]
    /\ artifacts = Artifacts
    /\ NoAnalysis
    /\ raw_csv = NoFile
    /\ cl_pc = "load" /\ cl_df = <<>> /\ cl_exc = "none"
    /\ fetched = {}

\* two users open the dashboard
InitSessions ==
    /\ raw_csv = NoFile
    /\ cl_pc = "load" /\ cl_df = <<>> /\ cl_exc = "none"
    /\ fetched = {}
    /\ clean_csv = NoFile
    /\ pc = "load" /\ exc = "none" /\ df = <<>> /\ df_balanced = <<>>
    /\ processed_csv = NoFile
    /\ db_pc = "load" /\ db_df = <<>> /\ db_exc = "none" /\ db_runs = 1
    /\ db \in SessionDatabases /\ conn = EmptyDb
    /\ app_pc = "idle" /\ input_data = NoFrame /\ aligned_input = NoFrame
    /\ app_out = {} /\ app_exc = "none"
    /\ filters = NoSelection /\ filtered_df = <<>>
    /\ cache_data = NoCache
    /\ run = [u \in Users |-> [NoRun EXCEPT !.pc = "start"]]
    /\ session_state = [u \in Users |-> NoSessionState]
    /\ artifacts \in {Artifacts, [Artifacts EXCEPT !.exists = FALSE]}
    /\ NoAnalysis

\* the prediction form about to be submitted
InitAlign ==
    /\ clean_csv = [exists |-> FALSE, rows |-> <<>>]
    /\ pc = "load" /\ exc = "none" /\ df = <<>> /\ df_balanced = <<>>
    /\ processed_csv = [exists |-> FALSE, rows |-> <<>>]
    /\ db_pc = "load" /\ db_df = <<>> /\ db_exc = "none" /\ db_runs = 1
    /\ db = EmptyDb /\ conn = EmptyDb
    /\ app_pc = "form"
    /\ input_data \in InputFrames
    /\ aligned_input = NoFrame
    /\ app_out = {}
    /\ app_exc = "none"
    /\ filters = NoSelection
    /\ filtered_df = <<>>
    /\ NoSessions
    /\ NoAnalysis
    /\ raw_csv = NoFile
    /\ cl_pc = "load" /\ cl_df = <<>> /\ cl_exc = "none"
    /\ fetched = {}

\* both scripts on the box-edge datasets
Spec == Init /\ [][Next]_vars

\* feature_engineering.py alone
SpecScore == InitScore /\ [][NextFE]_vars

SpecCluster == InitCluster /\ [][NextFE]_vars

SpecBalance == InitBalance /\ [][NextFE]_vars

\* data_cleaning.py
SpecClean == InitClean /\ [][NextClean]_vars

\* the three scripts of the pipeline, started in any order
SpecFiles == InitFiles /\ [][NextClean \/ NextFE \/ NextDB]_vars

\* feature_engineering.py and exploratory_data_analysis.py on the same
\* cleaned dataset
SpecFactors == InitFactors /\ [][NextFE \/ NextEDA]_vars

\* the store rebuilt on new data while the dashboard loads the summary
NextSummary ==
    \/ NextFE
    \/ FERunAgain
    \/ NextStore
    \/ \E u \in Users : StatsStep(u) \/ RerunStep(u)

SpecSummary == InitSummary /\ [][NextSummary]_vars

\* app.py: the script runs of two users, interleaved
SpecSessions == InitSessions /\ [][NextSessions]_vars

\* app.py: load_filtered_data on the selections of the sidebar
SpecThreshold == InitThreshold /\ [][NextThreshold]_vars

SpecQuery == InitQuery /\ [][NextQuery]_vars

\* app.py: create_aligned_input on the inputs of a submitted form
SpecAlign == InitAlign /\ [][NextAlign]_vars

\* both scripts, database_integration.py run more than once
SpecStore == InitStore /\ [][NextFE \/ NextStore]_vars

\* feature_engineering.py on rows that differ in spelling and in hour
SpecCategory == InitCategory /\ [][NextFE]_vars

(***************************************************************************)
(* Properties.                                                             *)
(***************************************************************************)
Rows(d) == {d[i] : i \in 1..Len(d)}

\* every row the feature-engineering stage holds or has written
StageRows == Rows(df) \cup Rows(df_balanced) \cup Rows(processed_csv.rows)

\* the severity columns exist in df
HasSeverity == pc \notin {"load", "factors", "severity"}

\* the time columns exist in df
HasTime == pc \notin {"load", "factors", "severity", "time"}

\* the vehicle_category column exists in df
HasVehicleCategory == pc \notin {"load", "factors", "severity", "time", "vehicle"}

\* the crash_rate column exists in df
HasCrashRate ==
    pc \notin {"load", "factors", "severity", "time", "vehicle", "location",
               "crash_rate"}

\* the collision_cluster column exists in df
HasClusters == pc \in {"balance", "save", "done"}

\* C1: every row's severity_score is 5 times the sum of its four *_killed
\* counts plus the sum of its four *_injured counts, and is not negative when
\* none of the eight counts is.
C1_SeverityScore ==
    HasSeverity =>
        \A r \in StageRows :
            /\ r.severity_score =
                  5 * (r.number_of_persons_killed + r.number_of_pedestrians_killed
                       + r.number_of_cyclist_killed + r.number_of_motorist_killed)
                  + (r.number_of_persons_injured + r.number_of_pedestrians_injured
                     + r.number_of_cyclist_injured + r.number_of_motorist_injured)
            /\ (\A c \in count_cols : r[c] >= 0) => r.severity_score >= 0

\* one pedestrian killed and two injured: the score is 7
C1_Witness ==
    /\ HasSeverity
    /\ \E r \in Rows(df) :
          /\ r.number_of_pedestrians_killed = 1
          /\ r.total_deaths = 1
          /\ r.total_injuries = 2
          /\ r.severity_score = 7

\* C2: severity_category is one of Low, Medium, High and is decided by the
\* score alone: Low iff score <= 4, Medium iff 4 < score <= 10, High iff
\* score > 10; so 4 is Low, 5 and 10 are Medium, 11 is High.
C2_SeverityCategory ==
    HasSeverity =>
        \A r \in StageRows :
            /\ r.severity_category \in {"Low", "Medium", "High"}
            /\ r.severity_category = "Low" <=> r.severity_score <= 4
            /\ r.severity_category = "Medium" <=>
                  (4 < r.severity_score /\ r.severity_score <= 10)
            /\ r.severity_category = "High" <=> r.severity_score > 10
            /\ r.severity_score = 4 => r.severity_category = "Low"
            /\ r.severity_score \in {5, 10} => r.severity_category = "Medium"
            /\ r.severity_score = 11 => r.severity_category = "High"

\* a row on the upper edge of Medium
C2_Witness ==
    /\ HasSeverity
    /\ \E r \in Rows(df) : r.severity_score = 10 /\ r.severity_category = "Medium"

\* the boxes, by index, that hold the point (bounds included)
BoxesHolding(lat, lon) ==
    {k \in 1..Len(borough_ranges) :
        /\ borough_ranges[k].lat_min <= lat /\ lat <= borough_ranges[k].lat_max
        /\ borough_ranges[k].lon_min <= lon /\ lon <= borough_ranges[k].lon_max}

BoroughNames == {borough_ranges[k].name : k \in 1..Len(borough_ranges)}

\* the borough column exists in the persistence script's df
HasBorough == db_pc \notin {"load", "boroughs"}

\* C3: every row gets one of the five boroughs or Unknown; Unknown exactly
\* when no bounding box (bounds included) holds the point, and otherwise a
\* borough whose box holds the point.
C3_BoroughTotal ==
    HasBorough =>
        \A r \in Rows(db_df) :
            LET holding == BoxesHolding(r.latitude, r.longitude)
            IN  /\ r.borough \in BoroughNames \cup {"Unknown"}
                /\ r.borough = "Unknown" <=> holding = {}
                /\ r.borough # "Unknown" =>
                      \E k \in holding : borough_ranges[k].name = r.borough

\* a point on the corner of the Staten Island box is in Staten Island
C3_Witness ==
    /\ HasBorough
    /\ \E r \in Rows(db_df) :
          /\ r.latitude = 406480 /\ r.longitude = -740510
          /\ r.borough = "Staten Island"

\* the table in another order
Reordered(p) == [k \in 1..Len(borough_ranges) |-> borough_ranges[p[k]]]

\* C4: a point in several boxes gets the borough that comes first in the
\* table order; a point in exactly one box gets that borough under every
\* order of the table.
C4_FirstMatchWins ==
    HasBorough =>
        \A r \in Rows(db_df) :
            LET holding == BoxesHolding(r.latitude, r.longitude)
            IN  /\ holding # {} =>
                      \E k \in holding :
                          /\ \A j \in holding : k <= j
                          /\ r.borough = borough_ranges[k].name
                /\ Cardinality(holding) = 1 =>
                      \A p \in Permutations(1..Len(borough_ranges)) :
                          first_match(Reordered(p), r.latitude, r.longitude) = r.borough

\* a point of the overlap of the Manhattan and Brooklyn boxes is in Manhattan
C4_Witness ==
    /\ HasBorough
    /\ \E r \in Rows(db_df) :
          /\ {1, 2} \subseteq BoxesHolding(r.latitude, r.longitude)
          /\ r.borough = "Manhattan"

LengthMismatch == "ValueError: Length of values does not match length of index"

\* the 0-based chunk of the row at position i (from 1)
ChunkOf(i) == (i - 1) \div ChunkSize

\* the rows of chunk k of d: positions [k*C, min((k+1)*C, n)) counted from 0
ChunkRows(d, k) == SubSeq(d, k * ChunkSize + 1, Min2((k + 1) * ChunkSize, Len(d)))

\* C5: the labels are as many as the rows, and the label of row i is the
\* label its position has when its contiguous chunk is clustered on its own.
C5_ChunkConcatenation ==
    /\ exc # LengthMismatch
    /\ HasClusters =>
          \A i \in 1..Len(df) :
              df[i].collision_cluster =
                  DBSCAN(ChunkRows(df, ChunkOf(i)), MinSamples)[i - ChunkOf(i) * ChunkSize]

\* a full chunk with the clusters 0 and 1, followed by a shorter chunk whose
\* rows are cluster 0 again
C5_Witness ==
    /\ HasClusters
    /\ Len(df) > ChunkSize
    /\ Len(df) % ChunkSize # 0
    /\ \E i, j \in 1..ChunkSize :
          df[i].collision_cluster = 0 /\ df[j].collision_cluster = 1
    /\ \A i \in ChunkSize + 1..Len(df) : df[i].collision_cluster = 0

\* C6: every row of a chunk of fewer than min_samples rows is noise (-1).
C6_SmallChunkNoise ==
    HasClusters =>
        \A i \in 1..Len(df) :
            Len(ChunkRows(df, ChunkOf(i))) < MinSamples => df[i].collision_cluster = -1

\* a last chunk of one row, after a chunk that has a cluster
C6_Witness ==
    /\ HasClusters
    /\ Len(df) = ChunkSize + 1
    /\ Len(ChunkRows(df, 1)) < MinSamples
    /\ df[Len(df)].collision_cluster = -1
    /\ haversine_within_eps(df[Len(df)], df[ChunkSize])
    /\ df[ChunkSize].collision_cluster = 0

Coordinates(d) == [i \in 1..Len(d) |-> <<d[i].latitude, d[i].longitude>>]

\* d with one row moved, its last row removed, or one row added at the end
Variants(d) ==
    {[d EXCEPT ![j].latitude = lat] : j \in 1..Len(d), lat \in ClusterLats}
    \cup {SubSeq(d, 1, Len(d) - 1)}
    \cup {Append(d, [d[1] EXCEPT !.latitude = lat]) : lat \in ClusterLats}

\* C7: the labels of a chunk depend on the coordinates of that chunk alone:
\* a dataset that differs in other chunks only, the chunk's bounds unmoved,
\* gives the chunk the same labels.
C7_ChunkLocalLabels ==
    HasClusters =>
        \A v \in Variants(df) :
            \A k \in 0..ChunkOf(Len(df)) :
                (/\ ChunkRows(df, k) # <<>>
                 /\ Coordinates(ChunkRows(v, k)) = Coordinates(ChunkRows(df, k)))
                => \A i \in 1..Len(df) :
                      ChunkOf(i) = k =>
                          cluster_in_chunks(v, ChunkSize)[i] = df[i].collision_cluster

\* two chunks use the label 0 for groups that are out of each other's reach
C7_Witness ==
    /\ HasClusters
    /\ \E i, j \in 1..Len(df) :
          /\ ChunkOf(i) # ChunkOf(j)
          /\ df[i].collision_cluster = 0
          /\ df[j].collision_cluster = 0
          /\ \A a, b \in 1..Len(df) :
                (ChunkOf(a) = ChunkOf(i) /\ ChunkOf(b) = ChunkOf(j))
                => ~haversine_within_eps(df[a], df[b])

LowCount(d) == Cardinality({i \in 1..Len(d) : d[i].severity_category = "Low"})

\* C8: the balanced output has as many Low rows as the dataset had rows
\* that are not Low before balancing.
C8_DownsampleCount ==
    /\ pc \in {"save", "done"} => LowCount(df_balanced) = Len(df) - LowCount(df)
    /\ processed_csv.exists => LowCount(processed_csv.rows) = Len(df) - LowCount(df)

\* Low rows were dropped: three Low rows and one that is not
C8_Witness ==
    /\ pc = "done"
    /\ LowCount(df) = 3
    /\ Len(df) = 4
    /\ LowCount(processed_csv.rows) = 1

\* crash_rate of row r is the mean of severity_score over the rows of d in r's cell
IsCellMean(r, d) ==
    LET cell == {i \in 1..Len(d) : d[i].location_grid = r.location_grid}
    IN  /\ cell # {}
        /\ r.crash_rate.den > 0
        /\ r.crash_rate.num * Cardinality(cell)
              = r.crash_rate.den * SumOver(d, "severity_score", cell)

\* C9: a row's crash_rate is the mean severity_score of all rows of the full
\* dataset in its grid cell, so rows of one cell carry one value, and the
\* balanced output keeps the value computed on the full dataset.
C9_CrashRate ==
    HasCrashRate =>
        /\ \A r \in StageRows : IsCellMean(r, df)
        /\ \A r, q \in StageRows :
              r.location_grid = q.location_grid => r.crash_rate = q.crash_rate

\* a written row whose crash_rate is not the mean of its cell in the output
C9_Witness ==
    /\ pc = "done"
    /\ \E r \in Rows(processed_csv.rows) :
          /\ ~IsCellMean(r, processed_csv.rows)
          /\ \E q \in Rows(processed_csv.rows) : q # r /\ q.location_grid = r.location_grid

FactorCategories == {factor_mapping[k] : k \in DOMAIN factor_mapping}

\* the contributing_factor_category column exists in df
HasFactorCategory == pc \notin {"load", "factors"}

\* C10: every row's contributing_factor_category is in the fixed category
\* set: the table entry for a factor that is a key, "Unknown/Other" for any
\* other factor, never a missing value.
C10_FactorDefault ==
    HasFactorCategory =>
        \A r \in StageRows :
            /\ r.contributing_factor_category \in FactorCategories
            /\ r.contributing_factor_vehicle_1 \in DOMAIN factor_mapping =>
                  r.contributing_factor_category
                      = factor_mapping[r.contributing_factor_vehicle_1]
            /\ r.contributing_factor_vehicle_1 \notin DOMAIN factor_mapping =>
                  r.contributing_factor_category = "Unknown/Other"

VehicleCategories == {vehicle_mapping[k] : k \in DOMAIN vehicle_mapping} \cup {"Unknown"}

\* C11: every row's vehicle_category is one of Passenger Vehicle, Taxi, Truck,
\* Van, Bus, Bike and Unknown: the table entry when the row's vehicle code is
\* a key of the table, and Unknown for every other code, the placeholder of
\* the cleaning stage included; the code looked up is the lower-cased form of
\* the code that was read.
C11_VehicleCategory ==
    HasVehicleCategory =>
        /\ \A r \in StageRows :
              /\ r.vehicle_category
                    \in {"Passenger Vehicle", "Taxi", "Truck", "Van", "Bus", "Bike",
                         "Unknown"}
              /\ r.vehicle_type_code_1 \in DOMAIN vehicle_mapping =>
                    r.vehicle_category = vehicle_mapping[r.vehicle_type_code_1]
              /\ r.vehicle_type_code_1 \notin DOMAIN vehicle_mapping =>
                    r.vehicle_category = "Unknown"
        /\ \A i \in 1..Len(df) :
              /\ df[i].vehicle_type_code_1
                    = lower(clean_csv.rows[i].vehicle_type_code_1)
              /\ clean_csv.rows[i].vehicle_type_code_1 = "Unknown" =>
                    df[i].vehicle_category = "Unknown"

\* the placeholder of the cleaning stage mapped to Unknown next to a code of
\* the table mapped to its entry
C11_Witness ==
    /\ HasVehicleCategory
    /\ \E i, j \in 1..Len(df) :
          /\ clean_csv.rows[i].vehicle_type_code_1 = "Unknown"
          /\ df[i].vehicle_category = "Unknown"
          /\ clean_csv.rows[j].vehicle_type_code_1 = "Pick-up Truck"
          /\ df[j].vehicle_category = "Truck"

\* C12: the factor lookup and the vehicle lookup are both case-insensitive:
\* two rows whose codes differ only in case get the same category.
C12_CaseInsensitive ==
    HasVehicleCategory =>
        \A i, j \in 1..Len(df) :
            /\ lower(clean_csv.rows[i].vehicle_type_code_1)
                  = lower(clean_csv.rows[j].vehicle_type_code_1)
               => df[i].vehicle_category = df[j].vehicle_category
            /\ lower(clean_csv.rows[i].contributing_factor_vehicle_1)
                  = lower(clean_csv.rows[j].contributing_factor_vehicle_1)
               => df[i].contributing_factor_category
                     = df[j].contributing_factor_category

\* C13: for every hour 0..23 time_of_day is exactly one of Night [0, 6),
\* Morning [6, 12), Afternoon [12, 18) and Evening [18, 24); no hour of the
\* day is left without a bucket.
C13_TimeOfDay ==
    HasTime =>
        \A r \in StageRows :
            r.hour_of_day \in 0..23 =>
                /\ r.time_of_day \in {"Night", "Morning", "Afternoon", "Evening"}
                /\ r.time_of_day = "Night" <=> r.hour_of_day < 6
                /\ r.time_of_day = "Morning" <=> (6 <= r.hour_of_day /\ r.hour_of_day < 12)
                /\ r.time_of_day = "Afternoon" <=> (12 <= r.hour_of_day /\ r.hour_of_day < 18)
                /\ r.time_of_day = "Evening" <=> 18 <= r.hour_of_day

\* midnight, the closed lower end of the first bucket, labelled Night
C13_Witness ==
    /\ HasTime
    /\ \E r \in Rows(df) : r.hour_of_day = 0 /\ r.time_of_day = "Night"

\* C14: after any number of runs of database_integration.py on one database
\* file, GlobalStatistics holds exactly one row, and that row is computed
\* from the Collisions table the last run wrote.
C14_SingleSummaryRow ==
    db_pc = "done" =>
        /\ Len(db.GlobalStatistics) = 1
        /\ db.GlobalStatistics[1] \in global_statistics(db.Collisions)

\* the one-hot columns of a categorical column
Group(column) == {one_hot_name(column, v) : v \in trained_categories[column]}

\* the form has been submitted and create_aligned_input has returned
Aligned == app_pc = "predict"

\* C15: create_aligned_input returns one row over exactly the trained feature
\* names; for a categorical column of the input whose value is a trained
\* category exactly the one-hot column of that value is 1 and the others of
\* its group are 0; a group whose column is absent from the input, or whose
\* value is no trained category, is all zeros.
C15_OneHotGroups ==
    Aligned =>
        /\ DOMAIN aligned_input = feature_names
        /\ \A c \in categorical_features :
              IF c \in columns(input_data)
                    /\ input_data[c].v \in trained_categories[c]
              THEN \A f \in Group(c) :
                      aligned_input[f].v
                          = IF f = one_hot_name(c, input_data[c].v) THEN 1 ELSE 0
              ELSE \A f \in Group(c) : aligned_input[f].v = 0

\* an input with a trained month, an untrained day and no borough column
C15_Witness ==
    /\ Aligned
    /\ <<"borough">> \notin columns(input_data)
    /\ <<"day", "of", "week">> \in columns(input_data)
    /\ input_data[<<"day", "of", "week">>].v = <<"Sunday">>
    /\ <<"month">> \in columns(input_data)
    /\ aligned_input[<<"cat", "", "month", "12">>].v = 1
    /\ aligned_input[<<"cat", "", "month", "1">>].v = 0

\* the input carries every column of the form
FullInput == columns(input_data) = DOMAIN input_values

\* create_aligned_input applied to the row it has returned
Realigned == create_aligned_input(aligned_input, feature_names)

\* C16: for an input that carries every column, aligning the aligned row
\* again gives the same row.
C16_Idempotent ==
    (Aligned /\ FullInput) => Realigned.aligned_input = aligned_input

\* C16, amended: aligning an aligned row again gives the all-zero row over
\* the trained feature names, whatever the input was: the aligned row has the
\* feature names for columns and none of the source columns, so every lookup
\* misses.  It is the row of the first alignment only when that row is all
\* zero.
C16_RealignedIsZero ==
    Aligned =>
        /\ Realigned.exc = "none"
        /\ DOMAIN Realigned.aligned_input = feature_names
        /\ \A f \in feature_names : Realigned.aligned_input[f].v = 0
        /\ Realigned.aligned_input = aligned_input
              <=> \A f \in feature_names : aligned_input[f].v = 0

\* a full input aligned to a row with a number and a one-hot column set
C16_Witness ==
    /\ Aligned /\ FullInput
    /\ aligned_input[<<"num", "", "latitude">>].v = 407128
    /\ aligned_input[<<"cat", "", "borough", "Manhattan">>].v = 1
    /\ Realigned.aligned_input[<<"num", "", "latitude">>].v = 0

\* the column of input_data a trained feature is filled from
SourceColumn(f) ==
    CHOOSE c \in numerical_features \cup categorical_features :
        IF c \in numerical_features THEN f = <<"num", "">> \o c ELSE f \in Group(c)

MissingSource == {f \in feature_names : SourceColumn(f) \notin columns(input_data)}

\* C17: a trained feature whose source column is missing from the input
\* never makes create_aligned_input fail: the miss is logged, the column of
\* the feature keeps its zero, and the aligned row is returned.
C17_MissLoggedAndZero ==
    app_pc # "form" =>
        /\ app_exc = "none"
        /\ Aligned
        /\ \A f \in MissingSource :
              /\ aligned_input[f].v = 0
              /\ \E m \in app_out : m[2] = f

\* the raw row has both coordinates and at least one of the eight counts
Survives(raw) ==
    /\ raw["LATITUDE"] # NaNNum
    /\ raw["LONGITUDE"] # NaNNum
    /\ \E k \in DOMAIN standard_name :
          standard_name[k] \in injury_cols /\ raw[k] # NaNNum

\* the cleaned row is the raw row with its missing counts set to 0
CleanedFrom(row, raw) ==
    /\ row.latitude = raw["LATITUDE"]
    /\ row.longitude = raw["LONGITUDE"]
    /\ \A k \in DOMAIN standard_name :
          standard_name[k] \in injury_cols =>
              row[standard_name[k]] = IF raw[k] = NaNNum THEN 0 ELSE raw[k]

\* C18: a raw row survives cleaning iff it has latitude and longitude and at
\* least one of the eight casualty counts; a surviving row has all eight
\* counts, the missing ones set to 0 and the present ones unchanged.
C18_CleanedRows ==
    cl_pc = "done" =>
        /\ \A raw \in Rows(raw_csv.rows) :
              Survives(raw) <=> \E row \in Rows(clean_csv.rows) : CleanedFrom(row, raw)
        /\ \A row \in Rows(clean_csv.rows) :
              /\ \A c \in injury_cols : row[c] # NaNNum
              /\ \E raw \in Rows(raw_csv.rows) : Survives(raw) /\ CleanedFrom(row, raw)

\* a row with one count present and seven missing, kept with seven zeros
C18_Witness ==
    /\ cl_pc = "done"
    /\ \E raw \in Rows(raw_csv.rows), row \in Rows(clean_csv.rows) :
          /\ CleanedFrom(row, raw)
          /\ raw["NUMBER OF CYCLIST INJURED"] = 1
          /\ \A k \in DOMAIN standard_name :
                (standard_name[k] \in injury_cols /\ k # "NUMBER OF CYCLIST INJURED")
                    => raw[k] = NaNNum
          /\ row.number_of_persons_killed = 0

\* C19: every stage fetches an input file that is missing before it reads
\* it: no stage ends on a missing input file that no download was attempted
\* for.  (That a file which is there is neither fetched nor overwritten is
\* the first branch of check_and_download_file.)
C19_FetchBeforeRead ==
    /\ cl_exc = "FileNotFoundError" => "raw_dataset.csv" \in fetched
    /\ exc = "FileNotFoundError" => "clean_collision_data.csv" \in fetched
    /\ db_exc = "FileNotFoundError" => "processed_collision_data.csv" \in fetched

\* the row satisfies every selected filter
Matches(row, selection) ==
    /\ row.borough \in Range(selection.borough)
    /\ row.month \in Range(selection.month)
    /\ row.day_of_week \in Range(selection.day_of_week)
    /\ row.contributing_factor_category \in Range(selection.factor)
    /\ row.vehicle_category \in Range(selection.vehicle)
    /\ IF selection.time_filter_type = "Time of Day"
       THEN row.time_of_day \in Range(selection.time_value)
       ELSE /\ selection.time_value[1] <= row.hour_of_day
            /\ row.hour_of_day <= selection.time_value[2]

\* load_filtered_data has returned
Filtered == app_pc = "form" /\ "Collisions" \in db.tables

\* C20: load_filtered_data returns exactly the rows of Collisions that
\* satisfy all the selected filters: borough, month, day_of_week,
\* contributing_factor_category and vehicle_category each in its selected
\* list, and time_of_day in the selected list ("Time of Day") or low <=
\* hour_of_day <= high (otherwise); the result is empty when a selected list
\* is empty.
C20_FilteredRows ==
    Filtered =>
        /\ filtered_df
              = select_columns(
                    take(db.Collisions,
                         {i \in 1..Len(db.Collisions) : Matches(db.Collisions[i], filters)}),
                    selected_columns)
        /\ (\E f \in {"borough", "month", "day_of_week", "factor", "vehicle",
                      "time_value"} : filters[f] = <<>>)
              => filtered_df = <<>>

\* two days and one factor category selected, and a time range that leaves
\* the first row out and keeps the second
C20_Witness ==
    /\ Filtered
    /\ filters.time_filter_type = "Time Range"
    /\ filters.time_value = <<9, 20>>
    /\ Len(filters.day_of_week) = 2
    /\ Len(filters.factor) = 1
    /\ Len(db.Collisions) = 2
    /\ db.Collisions[1].hour_of_day = 8
    /\ db.Collisions[2].hour_of_day = 9
    /\ Len(filtered_df) = 1
    /\ filtered_df[1] = select_columns(<<db.Collisions[2]>>, selected_columns)[1]

\* what the queries of the run of user u return when they are run alone
\* against the store and the model files
AsAlone(u) ==
    /\ run[u].global_stats # <<>>
          => run[u].global_stats = <<db.GlobalStatistics[1]>>
    /\ \A c \in OptionColumns :
          run[u].options[c] # {}
             => run[u].options[c]
                   = {db.Collisions[i][c] : i \in 1..Len(db.Collisions)}
                        \ {NaN, IF c = "borough" /\ run[u].exc = "none"
                                THEN "Unknown" ELSE NaN}
    /\ run[u].pc \in {"borough", "form", "done"}
          => run[u].filtered_df
                = select_columns(
                      take(db.Collisions,
                           {i \in 1..Len(db.Collisions) :
                               Matches(db.Collisions[i], run[u].filters)}),
                      selected_columns)
    /\ run[u].pc \in {"form", "done"} => run[u].borough_ranges = db.Boroughs
    /\ run[u].input_data # <<>>
          => LET input == run[u].input_data[1]
                 found == {i \in 1..Len(db.Collisions) :
                              /\ db.Collisions[i].borough = input.borough
                              /\ db.Collisions[i].time_of_day = input.time_of_day
                              /\ db.Collisions[i].month = input.month
                              /\ db.Collisions[i].day_of_week = input.day_of_week}
             IN  /\ found = {} => run[u].avg_crash_rate = <<>>
                 /\ found # {}
                       => run[u].avg_crash_rate
                             = <<AVG(take(db.Collisions, found), "crash_rate")>>
                 /\ run[u].prediction = <<predict(artifacts.model, input)>>

Occurrences(d, record) == Cardinality({i \in 1..Len(d) : d[i] = record})

\* C22: balancing only selects records: every record of the input that is
\* not Low is in the balanced output as often as in the input, unchanged,
\* and every record of the output is a record of the input that is in the
\* output no more often than in the input (a Low record is drawn at most
\* once); no record is created or modified.
C22_BalancingSelects ==
    pc \in {"save", "done"} =>
        /\ \A i \in 1..Len(df) :
              IsNotLow(df[i]) => Occurrences(df_balanced, df[i]) = Occurrences(df, df[i])
        /\ \A k \in 1..Len(df_balanced) :
              /\ Occurrences(df, df_balanced[k]) >= 1
              /\ Occurrences(df_balanced, df_balanced[k])
                    <= Occurrences(df, df_balanced[k])

\* one Low record of three different ones was drawn, and not the first, for
\* the one record that is not Low
C22_Witness ==
    /\ pc \in {"save", "done"}
    /\ Len(df) = 4
    /\ IsLow(df[1]) /\ IsLow(df[2]) /\ IsLow(df[3]) /\ IsNotLow(df[4])
    /\ Cardinality({df[1], df[2], df[3]}) = 3
    /\ df_balanced = <<df[3], df[4]>>

\* the analysis has computed the primary factors
HasPrimaryFactor == eda_pc \in {"drop", "done"}

\* C23: determine_primary_contributing_factor returns the primary factor
\* when it is no placeholder, otherwise the first of the factors 2, 3, 4, 5
\* that is no placeholder, and the primary factor when all four are
\* placeholders; its result is a placeholder only if all five are.
C23_PrimaryFactorFallback ==
    HasPrimaryFactor =>
        \A i \in 1..Len(eda_df) :
            LET row == clean_csv.rows[i]
                result == eda_df[i].primary_contributing_factor
                f1 == row.contributing_factor_vehicle_1
                f2 == row.contributing_factor_vehicle_2
                f3 == row.contributing_factor_vehicle_3
                f4 == row.contributing_factor_vehicle_4
                f5 == row.contributing_factor_vehicle_5
            IN  /\ result = IF f1 \notin placeholders THEN f1
                            ELSE IF f2 \notin placeholders THEN f2
                            ELSE IF f3 \notin placeholders THEN f3
                            ELSE IF f4 \notin placeholders THEN f4
                            ELSE IF f5 \notin placeholders THEN f5
                            ELSE f1
                /\ result \in placeholders
                      => {f1, f2, f3, f4, f5} \subseteq placeholders

\* factors 3 and 5 carry a code and factors 1, 2 and 4 do not: the result
\* is the code of factor 3
C23_Witness ==
    /\ eda_pc = "done"
    /\ clean_csv.rows[1].contributing_factor_vehicle_1 = "Unspecified"
    /\ clean_csv.rows[1].contributing_factor_vehicle_2 = "Unknown"
    /\ clean_csv.rows[1].contributing_factor_vehicle_3 = "Brakes Defective"
    /\ clean_csv.rows[1].contributing_factor_vehicle_4 = "Unknown"
    /\ clean_csv.rows[1].contributing_factor_vehicle_5 = "Tire Failure/Inadequate"
    /\ eda_df[1].primary_contributing_factor = "Brakes Defective"
    /\ "contributing_factor_vehicle_3" \notin DOMAIN eda_df[1]

\* C24: the feature-engineering stage does not apply the fallback: two
\* records with the same contributing_factor_vehicle_1 get the same
\* contributing_factor_category, whatever their factors 2 to 5 are.
C24_CategoryOfPrimaryOnly ==
    HasFactorCategory =>
        \A i, j \in 1..Len(df) :
            df[i].contributing_factor_vehicle_1 = df[j].contributing_factor_vehicle_1
               => df[i].contributing_factor_category
                     = df[j].contributing_factor_category

\* two records with the placeholder as primary factor, one of them with a
\* secondary factor that has a category, both without category
C24_Witness ==
    /\ HasFactorCategory
    /\ Len(df) = 2
    /\ df[1].contributing_factor_vehicle_1 = "Unspecified"
    /\ df[2].contributing_factor_vehicle_1 = "Unspecified"
    /\ df[1].contributing_factor_vehicle_2 = "Pavement Slippery"
    /\ df[2].contributing_factor_vehicle_2 = "Unknown"
    /\ df[1].contributing_factor_category = df[2].contributing_factor_category

\* C25: a stage that ends with an exception leaves its output as it was
\* before the stage started: the feature engineering writes no processed
\* dataset, and the first run of the persistence stage leaves the database
\* without any of its tables, as it found it.
C25_AllOrNothing ==
    /\ exc # "none" => processed_csv = NoFile
    /\ (db_exc # "none" /\ db_runs = 1) => db = EmptyDb

\* C26: after any sequence of rebuilds of the store, the summary that
\* load_global_stats gives the dashboard is the statistics of the Collisions
\* table as the last rebuild left it.
C26_SummaryCurrent ==
    [][\A u \in Users :
          (run[u].pc = "start" /\ run'[u].pc = "sidebar" /\ db_pc = "done")
             => run'[u].global_stats[1] \in global_statistics(db.Collisions)]_vars

\* C27: the borough selection is a toggle: once a run has passed the select
\* box, session_state.selected_borough is the borough chosen in the select
\* box, and force_rerun is set if the selection changed in this run and
\* clear if it did not.
C27_BoroughToggle ==
    \A u \in Users :
        (run[u].pc \in {"form", "done"} /\ run[u].exc = "none") =>
            /\ session_state[u].selected_borough = run[u].new_borough
            /\ session_state[u].force_rerun <=> run[u].changed

\* C28 as stated: the cleaned dataset that the cleaning stage writes has no
\* two identical rows.
C28_NoIdenticalRows ==
    cl_pc = "done" =>
        \A i, j \in 1..Len(clean_csv.rows) :
            i # j => clean_csv.rows[i] # clean_csv.rows[j]

\* C28: duplicates are removed from the raw rows, before any column is
\* dropped: the cleaned dataset has one row for every distinct raw row that
\* survives cleaning, so two of its rows are identical only if their raw
\* rows differ in a column that cleaning drops.
C28_RawRowsDeduplicated ==
    cl_pc = "done" =>
        Len(clean_csv.rows)
            = Cardinality({raw \in Rows(raw_csv.rows) : Survives(raw)})

\* two raw rows that differ in the collision id only are both kept, as two
\* identical cleaned rows
C28_Witness ==
    /\ cl_pc = "done"
    /\ Len(raw_csv.rows) = 2
    /\ raw_csv.rows[1]["COLLISION_ID"] # raw_csv.rows[2]["COLLISION_ID"]
    /\ Len(clean_csv.rows) = 2
    /\ clean_csv.rows[1] = clean_csv.rows[2]

\* C29: in a submitted prediction form the borough given to the model is the
\* borough that get_borough of the persistence stage assigns to the latitude
\* and longitude of the sliders.
C29_FormBoroughIsGetBorough ==
    \A u \in Users :
        run[u].input_data # <<>> =>
            get_borough(run[u].input_data[1].latitude,
                        run[u].input_data[1].longitude)
                = run[u].input_data[1].borough

====
